---------------------------- MODULE Spec2Model ----------------------------
(***************************************************************************)
(* Model of the photo extraction and image transformation engines of       *)
(* image_tool: URL normalisation (photo_extractor.py and                   *)
(* google_maps_extractor.py), the candidate filter and deduplicator        *)
(* (_add_image_url), the two harvesters with their browser session, the    *)
(* transformer, tone curve and size-targeted encoder of                    *)
(* image_processor.py, and the download, the processing batch, the         *)
(* extraction subprocess and the session state of app.py.                  *)
(*                                                                         *)
(* URLs are sequences of lexemes.  A lexeme is a string (one or several    *)
(* characters of the URL); the URL is the concatenation of its lexemes.    *)
(* The lexeme alphabets below are chosen so that no regular expression of  *)
(* the source matches across a lexeme boundary other than in the ways the  *)
(* operators spell out.                                                    *)
(***************************************************************************)
EXTENDS Integers, Sequences, FiniteSets, TLC

VARIABLES
    \* URL normaliser under test
    kind,        \* "generic" (photo_extractor) or "google" (google_maps_extractor)
    raw,         \* the raw URL handed to normalize_image_url
    base_url,    \* the page URL it is resolved against
    once,        \* normalize_image_url(raw, base_url)
    twice,       \* normalize_image_url(once, base_url)
    npc,         \* "raw", "once" or "twice"
    \* candidate filter and deduplicator (_add_image_url)
    results,     \* list of descriptors [url, thumb_url]
    seen_urls,   \* set of normalised URLs
    max_count,   \* max_count of the Google Maps _add_image_url
    arg,         \* raw URL of the latest _add_image_url call
    ret,         \* what that call returned (None in the generic extractor)
    outcome,     \* which return statement that call left by
    \* size-targeted encoder (save_as_webp)
    encoder,     \* the image's size at each quality, as the WebP encoder gives it
    target_bytes,
    quality,     \* quality of the next encode
    attempts,    \* the encodes made so far: [quality, size]
    payload,     \* what save_as_webp returned: the attempt whose buffer it is
    wpc,         \* "loop" or "returned"
    \* image transformer (process_image)
    src,          \* size of the source image, <<width, height>>
    size_preset,  \* <<target_w, target_h>>
    crop_box,     \* box handed to img.crop, <<left, upper, right, lower>>, or <<>>
    img,          \* size of the bitmap process_image holds (result)
    logo_src,     \* size of the logo bitmap given, <<>> when logo is None
    logo,         \* size of the logo after resize_logo_by_width
    logo_args,    \* [percent, position, custom_x, custom_y, offset_x, offset_y]
    place,        \* <<x, y>> handed to base.paste
    enhanced,     \* enhance_for_mobile was applied
    tpc,          \* "start", "cropped", "logo_resized", "pasted", "returned", "raised"
    \* page harvesters (extract_photos_from_url, extract_photos_from_google_maps)
    hpc,            \* position in the harvester
    page,           \* how the page answers a scroll: "bursty", "drip" or "flaky"
    session,        \* the browser session: "none", "open" or "closed"
    closes,         \* calls of browser.close()
    fault,          \* the Playwright exception that ended the harvest, and where
    dom,            \* the current navigation step's candidates on the page
    sel,            \* the candidate the step tries next
    clicked,        \* clicked of step 2
    tab_clicked,    \* tab_clicked of step 3
    swallowed,      \* element exceptions passed over so far
    max_images_arg, \* max_images as passed to extract_photos_from_google_maps
    max_images,     \* max_images after lines 94-96
    visible,        \* how many elements of the page's catalogue are in the DOM
    height,         \* document.body.scrollHeight
    idx,            \* element of the running enumeration loop
    last_count,
    no_new_count,
    scroll_attempt, \* loop variable of "for scroll_attempt in range(30)"
    last_height,
    scroll_attempts,
    scrolls,        \* scroll commands sent to the page so far
    returned,       \* the list the harvester returned
    \* photo download (fetch_image_bytes)
    fetch_url,      \* url of fetch_image_bytes
    fallback_url,   \* fallback_url of fetch_image_bytes ("None" when not given)
    requested,      \* the requests.get calls made so far: [url, response]
    data,           \* what the latest _fetch_image_bytes_inner returned
    fetched,        \* what fetch_image_bytes returned
    fpc,            \* position in fetch_image_bytes
    \* processing batch (the loop of app.main behind the process button)
    photos,         \* len(photos): the extracted list is photos 0 .. photos - 1
    fate,           \* what fetching, transforming and encoding each photo comes to
    selected,       \* sorted(st.session_state.selected_indices)
    bidx,           \* idx of "for idx, i in enumerate(selected)"
    processed,      \* the list of (number, webp_bytes)
    processed_images, \* st.session_state.processed_images
    zip_names,      \* the names written into the ZIP archive
    bpc,            \* position in the batch
    \* highlight attenuation (reduce_highlights)
    band,           \* two channel values of the image, <<x, y>>
    band_out,       \* the same two values after Image.point(reduce_high)
    rpc,            \* "start" or "done"
    \* extraction subprocess (extract_cli.main, app.extract_photos_via_subprocess)
    harvest,        \* what extract_photos_from_url comes to inside the subprocess
    proc,           \* what subprocess.run came to
    sub_ret,        \* (photos, error_message) returned by extract_photos_via_subprocess
    xpc,            \* position in the extraction
    \* web front end (app.main): st.session_state between two script runs
    extracted_photos,  \* len(st.session_state.extracted_photos)
    selected_indices,  \* st.session_state.selected_indices
    photo_sel,         \* the checkbox keys photo_sel_<i> held, and their values
    shown,             \* what the extraction step of the latest run displayed
    to_process,        \* "selected" as the processing loop of the latest run read it
    index_error,       \* photos[i] of the processing loop raised IndexError
    upc                \* "idle" or "ready" (between two script runs)

normVars == <<raw, once, twice, npc>>
addVars  == <<results, seen_urls, max_count, arg, ret, outcome>>
webpVars == <<encoder, target_bytes, quality, attempts, payload, wpc>>
xformVars == <<src, size_preset, crop_box, img, logo_src, logo, logo_args, place,
               enhanced, tpc>>
harvVars == <<hpc, page, session, closes, fault, dom, sel, clicked, tab_clicked,
              swallowed, max_images_arg, max_images, visible, height, idx, last_count,
              no_new_count, scroll_attempt, last_height, scroll_attempts, scrolls,
              returned>>
fetchVars == <<fetch_url, fallback_url, requested, data, fetched, fpc>>
batchVars == <<photos, fate, selected, bidx, processed, processed_images, zip_names, bpc>>
toneVars == <<band, band_out, rpc>>
extractVars == <<harvest, proc, sub_ret, xpc>>
uiVars == <<extracted_photos, selected_indices, photo_sel, shown, to_process,
            index_error, upc>>
frontVars == <<extractVars, uiVars>>
otherVars == <<fetchVars, batchVars, toneVars, frontVars>>
vars == <<kind, base_url, normVars, addVars, webpVars, xformVars, harvVars, otherVars>>

(***************************************************************************)
(* Bounds of the model.                                                    *)
(***************************************************************************)
\* longest URL body (lexemes after the head) drawn as a raw URL
MaxBody == 3

(***************************************************************************)
(* Generic helpers on sequences.                                           *)
(***************************************************************************)
Min(a, b) == IF a <= b THEN a ELSE b
Max(a, b) == IF a >= b THEN a ELSE b

Range(s) == {s[i] : i \in 1..Len(s)}

\* all sequences over S of length 0..n
RECURSIVE SeqsUpTo(_, _)
SeqsUpTo(S, n) ==
    IF n = 0 THEN {<<>>}
    ELSE LET shorter == SeqsUpTo(S, n - 1)
         IN  shorter \cup {Append(s, x) : s \in {t \in shorter : Len(t) = n - 1}, x \in S}

\* str.startswith(prefix) at lexeme granularity
StartsWith(s, p) == Len(s) >= Len(p) /\ SubSeq(s, 1, Len(p)) = p

\* number of lexemes of s, from position i on, that are in the class D
RECURSIVE RunLen(_, _, _)
RunLen(s, i, D) ==
    IF i > Len(s) \/ s[i] \notin D THEN 0 ELSE 1 + RunLen(s, i + 1, D)

(***************************************************************************)
(* Lexemes of the generic extractor (photo_extractor.py).                  *)
(***************************************************************************)
Schemes    == {"https://", "http://"}
\* a run of decimal digits, \d+
DigitLex   == {"1"}
\* the extensions (jpg|jpeg|png|webp) of HIGH_RES_PATTERNS
ImgExtLex  == {".jpg"}
\* an extension none of the patterns names
OtherExtLex == {".gif"}
\* the size tokens of the first three patterns, each with the "/" before it
RectLex    == {"/320x320_rect_", "/640x640_rect_", "/480x480_rect_"}
\* query keys (w|width|h|height|size) followed by "="
SizeKeyLex == {"w="}
HotpHost   == "imgfp.hotp.jp"

(***************************************************************************)
(* photo_extractor.to_high_res_url: the HIGH_RES_PATTERNS, in list order.  *)
(***************************************************************************)
\* patterns 1-3: NNNxNNN_rect_ -> 1024x1024_rect_
SubRect(s) ==
    [i \in 1..Len(s) |-> IF s[i] \in RectLex THEN "/1024x1024_rect_" ELSE s[i]]

\* patterns 4 and 5: key (\d*) \.(jpg|jpeg|png|webp)  ->  _l \1 . \2
RECURSIVE SubSizeSuffix(_, _)
SubSizeSuffix(s, key) ==
    IF s = <<>> THEN <<>>
    ELSE LET d == RunLen(s, 2, DigitLex)
         IN  IF s[1] = key /\ Len(s) >= d + 2 /\ s[d + 2] \in ImgExtLex
             THEN <<"_l">> \o SubSeq(s, 2, d + 2)
                           \o SubSizeSuffix(SubSeq(s, d + 3, Len(s)), key)
             ELSE <<s[1]>> \o SubSizeSuffix(Tail(s), key)

\* pattern 6: _thumb\.(jpg|jpeg|png|webp) -> .\1
RECURSIVE SubThumb(_)
SubThumb(s) ==
    IF s = <<>> THEN <<>>
    ELSE IF s[1] = "_thumb" /\ Len(s) >= 2 /\ s[2] \in ImgExtLex
         THEN <<s[2]>> \o SubThumb(SubSeq(s, 3, Len(s)))
         ELSE <<s[1]>> \o SubThumb(Tail(s))

\* first position >= i where _[sSmM] is followed by a ".", or 0
RECURSIVE FindSizeDot(_, _)
FindSizeDot(s, i) ==
    IF i >= Len(s) THEN 0
    ELSE IF s[i] \in {"_s", "_m"} /\ s[i + 1] \in (ImgExtLex \cup OtherExtLex)
         THEN i
         ELSE FindSizeDot(s, i + 1)

\* pattern 7: (imgfp\.hotp\.jp[^"']*?)_[sSmM]\.  ->  \1_L.
\* Each match starts at an occurrence of the host and ends at the first
\* size suffix after it; the scan resumes after the match.
RECURSIVE SubHotp(_)
SubHotp(s) ==
    IF s = <<>> THEN <<>>
    ELSE IF s[1] = HotpHost
         THEN LET j == FindSizeDot(s, 2)
              IN  IF j = 0 THEN s
                  ELSE SubSeq(s, 1, j - 1) \o <<"_L", s[j + 1]>>
                         \o SubHotp(SubSeq(s, j + 2, Len(s)))
         ELSE <<s[1]>> \o SubHotp(Tail(s))

\* pattern 8: [?&](w|width|h|height|size)=\d+  ->  ''
RECURSIVE SubSizeQuery(_)
SubSizeQuery(s) ==
    IF s = <<>> THEN <<>>
    ELSE LET d == RunLen(s, 3, DigitLex)
         IN  IF s[1] \in {"?", "&"} /\ Len(s) >= 3 /\ s[2] \in SizeKeyLex /\ d >= 1
             THEN SubSizeQuery(SubSeq(s, d + 3, Len(s)))
             ELSE <<s[1]>> \o SubSizeQuery(Tail(s))

\* re.sub(r'\?&+', '?', result)
RECURSIVE SubQueryAmp(_)
SubQueryAmp(s) ==
    IF s = <<>> THEN <<>>
    ELSE IF s[1] = "?" /\ RunLen(s, 2, {"&"}) >= 1
         THEN <<"?">> \o SubQueryAmp(SubSeq(s, 2 + RunLen(s, 2, {"&"}), Len(s)))
         ELSE <<s[1]>> \o SubQueryAmp(Tail(s))

\* str.rstrip('?&')
RECURSIVE RStrip(_, _)
RStrip(s, C) ==
    IF s # <<>> /\ s[Len(s)] \in C THEN RStrip(SubSeq(s, 1, Len(s) - 1), C) ELSE s

IsAbsolute(url) == url # <<>> /\ url[1] \in Schemes

to_high_res_url(url) ==
    IF ~IsAbsolute(url) THEN url
    ELSE RStrip(SubQueryAmp(SubSizeQuery(SubHotp(SubThumb(
             SubSizeSuffix(SubSizeSuffix(SubRect(url), "_s"), "_m"))))), {"?", "&"})


(***************************************************************************)
(* urllib.parse.urljoin(base, rel) for the relative references drawn here: *)
(* a reference that starts with "?" replaces the query of the base, any    *)
(* other one replaces the last path segment of the base.  The bases have   *)
(* no query, and the references hold no "/", "." or ".." segment.          *)
(***************************************************************************)
RECURSIVE BaseDir(_)
BaseDir(b) ==
    IF b = <<>> \/ b[Len(b)] = "/" THEN b ELSE BaseDir(SubSeq(b, 1, Len(b) - 1))

urljoin(b, rel) == IF rel[1] = "?" THEN b \o rel ELSE BaseDir(b) \o rel

\* lexemes whose first character is "/" (but that are not "//")
SlashLex == {"/", "/s1/", "/s2048/"}

\* the part of normalize_image_url both extractors share: make url absolute
Absolutize(url, b) ==
    IF url[1] = "//" THEN <<"https://">> \o Tail(url)
    ELSE IF url[1] \in SlashLex THEN <<b[1], b[2]>> \o url
    ELSE IF url[1] \notin Schemes THEN urljoin(b, url)
    ELSE url

\* photo_extractor.normalize_image_url
normalize_image_url(url, b) ==
    IF url = <<>> THEN <<>> ELSE to_high_res_url(Absolutize(url, b))

(***************************************************************************)
(* Lexemes of the Google Maps extractor.  "=w1" stands for =w\d+, "=h1"    *)
(* for =h\d+, "=s1" for =s\d+, "-h1" for -h\d+, "/s1/" for /s\d+/; "=w" is *)
(* the two characters with no digit after them.                            *)
(***************************************************************************)
GoogleHost == "lh3.googleusercontent.com"

\* GOOGLE_IMAGE_SIZE_PATTERNS[0]: =w\d+-h\d+ -> =s2048
RECURSIVE SubWH(_)
SubWH(s) ==
    IF s = <<>> THEN <<>>
    ELSE IF s[1] = "=w1" /\ Len(s) >= 2 /\ s[2] = "-h1"
         THEN <<"=s2048">> \o SubWH(SubSeq(s, 3, Len(s)))
         ELSE <<s[1]>> \o SubWH(Tail(s))

\* a pattern that matches single lexemes: each lexeme of `from` becomes `to`
SubLex(s, from, to) == [i \in 1..Len(s) |-> IF s[i] \in from THEN to ELSE s[i]]

\* the patterns of GOOGLE_IMAGE_SIZE_PATTERNS, in list order
GoogleSizePatterns(s) ==
    SubLex(SubLex(SubLex(SubLex(SubWH(s),
        {"=w1"}, "=s2048"),
        {"=h1"}, "=s2048"),
        {"=s1", "=s2048"}, "=s2048"),
        {"/s1/", "/s2048/"}, "/s2048/")

\* '=s' in result, '=w' in result, '/s' in result, '?' in result
HasEqS(s)   == \E i \in 1..Len(s) : s[i] \in {"=s1", "=s2048"}
HasEqW(s)   == \E i \in 1..Len(s) : s[i] \in {"=w1", "=w"}
HasSlashS(s) == \E i \in 1..Len(s) : s[i] \in {"/s1/", "/s2048/"}
HasQuery(s) == \E i \in 1..Len(s) : s[i] = "?"

\* the size token appended when the URL carries none
AppendSize(result) ==
    IF HasQuery(result) THEN RStrip(result, {"&"}) \o <<"&s2048">>
    ELSE result \o <<"=s2048">>

IsGoogleUrl(url) == \E i \in 1..Len(url) : url[i] = GoogleHost

to_high_res_google_url(url) ==
    IF url = <<>> \/ ~IsGoogleUrl(url) THEN url
    ELSE LET result == GoogleSizePatterns(url)
         IN  IF ~HasEqS(result) /\ ~HasEqW(result) /\ ~HasSlashS(result)
             THEN AppendSize(result)
             ELSE result

\* google_maps_extractor.normalize_image_url
google_normalize_image_url(url, b) ==
    IF url = <<>> THEN <<>>
    ELSE LET abs == Absolutize(url, b)
         IN  IF IsGoogleUrl(abs) THEN to_high_res_google_url(abs) ELSE abs

Normalizer(k, url, b) ==
    IF k = "google" THEN google_normalize_image_url(url, b)
    ELSE normalize_image_url(url, b)

(***************************************************************************)
(* The raw URLs and page URLs the normalisers are applied to.              *)
(***************************************************************************)
GenericBody == {"img", "_s", "_m", "_thumb", "1", ".jpg", ".gif", "?", "&",
                "w=", "/320x320_rect_"}
GenericHeads == {<<"https://", "cdn.example", "/">>,
                 <<"http://", HotpHost, "/">>,
                 <<"//", "cdn.example", "/">>,
                 <<"/", "img">>,
                 <<"img">>}
GenericBases == {<<"https://", "tabelog.com", "/", "x", "/">>,
                 <<"https://", "www.hotpepper.jp", "/", "x", "/", "photo">>}

GoogleBody == {"p", "=w1", "=h1", "=s1", "-h1", "/s1/", "=w", "?", "&"}
GoogleHeads == {<<"https://", GoogleHost, "/">>,
                <<"//", GoogleHost, "/">>,
                <<"https://", "cdn.example", "/">>,
                <<"/", "p">>}
GoogleBases == {<<"https://", "www.google.com", "/", "maps", "/", "place", "/">>}

Heads(k)  == IF k = "google" THEN GoogleHeads ELSE GenericHeads
Bodies(k) == SeqsUpTo(IF k = "google" THEN GoogleBody ELSE GenericBody, MaxBody)
Bases(k)  == IF k = "google" THEN GoogleBases ELSE GenericBases
RawUrls(k) == {h \o t : h \in Heads(k), t \in Bodies(k)}

(***************************************************************************)
(* The normaliser applied to a raw URL, and then to its own output.        *)
(***************************************************************************)
FetchIdle ==
    /\ fetch_url = "" /\ fallback_url = "None" /\ requested = <<>>
    /\ data = <<>> /\ fetched = <<>> /\ fpc = "idle"
BatchIdle ==
    /\ photos = 0 /\ fate = <<>> /\ selected = <<>> /\ bidx = 0
    /\ processed = <<>> /\ processed_images = <<>> /\ zip_names = <<>>
    /\ bpc = "idle"
ToneIdle == band = <<>> /\ band_out = <<>> /\ rpc = "idle"
ExtractIdle == harvest = <<>> /\ proc = <<>> /\ sub_ret = <<>> /\ xpc = "idle"
UiIdle ==
    /\ extracted_photos = 0 /\ selected_indices = {} /\ photo_sel = <<>>
    /\ shown = "none" /\ to_process = <<>> /\ index_error = FALSE /\ upc = "idle"
FrontIdle == ExtractIdle /\ UiIdle
OtherIdle == FetchIdle /\ BatchIdle /\ ToneIdle /\ FrontIdle
NormIdle == raw = <<>> /\ once = <<>> /\ twice = <<>> /\ npc = "idle"
AddIdle  ==
    /\ results = <<>> /\ seen_urls = {} /\ max_count = 0
    /\ arg = <<>> /\ ret = "None" /\ outcome = "idle"
WebpIdle ==
    /\ encoder = <<>> /\ target_bytes = 0 /\ quality = 0
    /\ attempts = <<>> /\ payload = <<>> /\ wpc = "idle"
XformIdle ==
    /\ src = <<>> /\ size_preset = <<>> /\ crop_box = <<>> /\ img = <<>>
    /\ logo_src = <<>> /\ logo = <<>> /\ logo_args = <<>> /\ place = <<>>
    /\ enhanced = FALSE /\ tpc = "idle"
HarvIdle ==
    /\ hpc = "idle" /\ page = "none" /\ session = "none" /\ closes = 0
    /\ fault = [kind |-> "none", at |-> "none"]
    /\ dom = [first |-> 0, before |-> "none"] /\ sel = 0
    /\ clicked = FALSE /\ tab_clicked = FALSE /\ swallowed = 0
    /\ max_images_arg = 0 /\ max_images = 0 /\ visible = 0
    /\ height = 0 /\ idx = 0 /\ last_count = 0 /\ no_new_count = 0
    /\ scroll_attempt = 0 /\ last_height = 0 /\ scroll_attempts = 0
    /\ scrolls = 0 /\ returned = <<>>

NormInit ==
    /\ kind \in {"generic", "google"}
    /\ raw \in RawUrls(kind)
    /\ base_url \in Bases(kind)
    /\ once = <<>>
    /\ twice = <<>>
    /\ npc = "raw"
    /\ AddIdle /\ WebpIdle /\ XformIdle /\ HarvIdle /\ OtherIdle

NormalizeOnce ==
    /\ npc = "raw"
    /\ once' = Normalizer(kind, raw, base_url)
    /\ npc' = "once"
    /\ UNCHANGED <<kind, raw, base_url, twice, addVars, webpVars, xformVars, harvVars, otherVars>>

NormalizeTwice ==
    /\ npc = "once"
    /\ twice' = Normalizer(kind, once, base_url)
    /\ npc' = "twice"
    /\ UNCHANGED <<kind, raw, base_url, once, addVars, webpVars, xformVars, harvVars, otherVars>>

NormNext == NormalizeOnce \/ NormalizeTwice

SpecNorm == NormInit /\ [][NormNext]_vars

\* C1: URL normalisation is idempotent in both extractors: normalising a
\* normalised URL against the same base gives the same URL again.
C1_Idempotent == npc = "twice" => twice = once

\* C1 for the generic normaliser alone, and for the Google one alone
C1_IdempotentGeneric == (npc = "twice" /\ kind = "generic") => twice = once
C1_IdempotentGoogle  == (npc = "twice" /\ kind = "google") => twice = once

\* the size tokens =w<N>, =h<N>, =s<N> other than =s2048
C17_OldTokens == {"=w1", "=h1", "=s1"}

\* C17: the normalised form of a googleusercontent.com URL holds the token
\* '=s2048' (put in place of every =w<N>, =h<N>, =s<N>, or appended when
\* the URL had no size token) and no other =w / =h / =s size token.
C17_GoogleSizeToken ==
    (kind = "google" /\ npc # "raw" /\ IsGoogleUrl(once)) =>
        /\ "=s2048" \in Range(once)
        /\ Range(once) \cap C17_OldTokens = {}

\* C17, the replacement alone: no =w<N>, =h<N>, =s<N> token other than
\* =s2048 is left
C17_OldTokensReplaced ==
    (kind = "google" /\ npc # "raw" /\ IsGoogleUrl(once)) =>
        Range(once) \cap C17_OldTokens = {}

\* C17, the appended token alone, for a URL without a query, without a
\* /s<N>/ path segment and without a bare '=w'
C17_TokenWithoutQuery ==
    (kind = "google" /\ npc # "raw" /\ IsGoogleUrl(once)
        /\ Range(raw) \cap {"?", "/s1/", "=w"} = {}) =>
        "=s2048" \in Range(once)


(***************************************************************************)
(* The candidate filter and deduplicator.                                  *)
(***************************************************************************)
\* number of characters of a lexeme
CharLen(t) ==
    CASE t \in {"/", "?", "&", "1", "p", "a", "b", "c", "d", "e", "f", "g"} -> 1
      [] t \in {"//", "_s", "_m", "_l", "_L", "w=", "=w"} -> 2
      [] t \in {"img", "=w1", "=h1", "=s1", "-h1", "1x1"} -> 3
      [] t \in {".jpg", ".gif", ".png", ".JPG", "icon", "/s1/", "maps"} -> 4
      [] t \in {".webp", "place"} -> 5
      [] t \in {"_thumb", "=s2048", "&s2048"} -> 6
      [] t \in {"http://", "150x150", "/s2048/"} -> 7
      [] t = "https://" -> 8
      [] t = "cdn.example" -> 11
      [] t = "tabelog.com" -> 11
      [] t = HotpHost -> 13
      [] t \in {"tblg.k-img.com", "www.google.com"} -> 14
      [] t \in RectLex -> 14
      [] t = "/1024x1024_rect_" -> 16
      [] t = "www.hotpepper.jp" -> 16
      [] t = GoogleHost -> 25

\* len(url)
RECURSIVE UrlLen(_)
UrlLen(url) == IF url = <<>> THEN 0 ELSE CharLen(url[1]) + UrlLen(Tail(url))

\* str.lower() of a lexeme
Lower(t) == CASE t = ".JPG" -> ".jpg" [] OTHER -> t

\* any(x in url.lower() for x in words): the words are whole lexemes
HasLower(url, words) == \E i \in 1..Len(url) : Lower(url[i]) \in words
\* x in url, case-sensitive
Has(url, words) == \E i \in 1..Len(url) : url[i] \in words

GenericNoise == {"pixel", "tracking", "blank", "avatar", "icon", "imgvc.com"}
AvatarDims   == {"150x150", "100x100"}
GenericExts  == {".jpg", ".jpeg", ".png", ".webp"}
GoogleNoise  == {"pixel", "tracking", "blank", "avatar", "icon", "1x1"}
GoogleExts   == {".jpg", ".jpeg", ".png", GoogleHost}

\* the descriptor with its two fields exchanged
Descriptor_swapped(full_url, url) == [url |-> url, thumb_url |-> full_url]

\* results.append({"url": full_url, "thumb_url": url})
Descriptor(full_url, url) == [url |-> full_url, thumb_url |-> url]

\* _add_image_url with the seen-set keyed on the raw URL instead of the
\* normalised one
add_image_url_rawkey(res, seen, url, b) ==
    IF url = <<>> \/ UrlLen(url) < 20 \/ HasLower(url, GenericNoise)
       \/ Has(url, AvatarDims) \/ ~HasLower(url, GenericExts) \/ url \in seen
        THEN [results |-> res, seen_urls |-> seen, ret |-> "None", outcome |-> "dropped"]
        ELSE [results |-> Append(res, Descriptor(normalize_image_url(url, b), url)),
              seen_urls |-> seen \cup {url}, ret |-> "None", outcome |-> "added"]

\* photo_extractor._add_image_url: the lists after the call, and the return
\* statement taken
add_image_url(res, seen, url, b) ==
    IF url = <<>> \/ UrlLen(url) < 20
        THEN [results |-> res, seen_urls |-> seen, ret |-> "None", outcome |-> "short"]
    ELSE IF HasLower(url, GenericNoise)
        THEN [results |-> res, seen_urls |-> seen, ret |-> "None", outcome |-> "noise"]
    ELSE IF Has(url, AvatarDims)
        THEN [results |-> res, seen_urls |-> seen, ret |-> "None", outcome |-> "avatar"]
    ELSE IF ~HasLower(url, GenericExts)
        THEN [results |-> res, seen_urls |-> seen, ret |-> "None", outcome |-> "no_ext"]
    ELSE LET full_url == normalize_image_url(url, b)
         IN  IF full_url \in seen
             THEN [results |-> res, seen_urls |-> seen, ret |-> "None",
                   outcome |-> "duplicate"]
             ELSE [results |-> Append(res, Descriptor(full_url, url)),
                   seen_urls |-> seen \cup {full_url}, ret |-> "None",
                   outcome |-> "added"]

\* _add_image_url of the Maps extractor without its max_count test
google_add_image_url_nocap(res, seen, url, b, maxc) ==
    IF url = <<>> \/ UrlLen(url) < 20 \/ HasLower(url, GoogleNoise)
       \/ ~HasLower(url, GoogleExts) \/ google_normalize_image_url(url, b) \in seen
        THEN [results |-> res, seen_urls |-> seen, ret |-> TRUE, outcome |-> "dropped"]
        ELSE [results |-> Append(res, Descriptor(google_normalize_image_url(url, b), url)),
              seen_urls |-> seen \cup {google_normalize_image_url(url, b)},
              ret |-> TRUE, outcome |-> "added"]

\* google_maps_extractor._add_image_url
google_add_image_url(res, seen, url, b, maxc) ==
    IF Len(res) >= maxc
        THEN [results |-> res, seen_urls |-> seen, ret |-> FALSE, outcome |-> "full"]
    ELSE IF url = <<>> \/ UrlLen(url) < 20
        THEN [results |-> res, seen_urls |-> seen, ret |-> TRUE, outcome |-> "short"]
    ELSE IF HasLower(url, GoogleNoise)
        THEN [results |-> res, seen_urls |-> seen, ret |-> TRUE, outcome |-> "noise"]
    ELSE IF ~HasLower(url, GoogleExts)
        THEN [results |-> res, seen_urls |-> seen, ret |-> TRUE, outcome |-> "no_ext"]
    ELSE LET full_url == google_normalize_image_url(url, b)
         IN  IF full_url \in seen
             THEN [results |-> res, seen_urls |-> seen, ret |-> TRUE,
                   outcome |-> "duplicate"]
             ELSE [results |-> Append(res, Descriptor(full_url, url)),
                   seen_urls |-> seen \cup {full_url},
                   ret |-> (Len(res) + 1 < maxc), outcome |-> "added"]

(***************************************************************************)
(* Any sequence of _add_image_url calls on one (results, seen_urls) pair.  *)
(***************************************************************************)
\* largest max_count drawn
MaxCount == 3

GenericCandidates ==
    { <<"https://", "tblg.k-img.com", "/", "img", "_s", ".jpg">>,
      <<"https://", "tblg.k-img.com", "/", "img", "_m", ".jpg">>,
      <<"https://", "tblg.k-img.com", "/", "img", "_l", ".jpg">>,
      <<"https://", "tblg.k-img.com", "/", "img", ".jpg", "?", "w=", "1">>,
      <<"https://", "tblg.k-img.com", "/", "img", ".jpg">>,
      <<"//", "tblg.k-img.com", "/", "img", ".jpg">>,
      <<"/", "img", "/320x320_rect_", "1", ".jpg">>,
      <<"https://", "tblg.k-img.com", "/", "icon", ".jpg">>,
      <<"https://", "tblg.k-img.com", "/", "150x150", ".jpg">>,
      <<"https://", "tblg.k-img.com", "/", "1x1", ".jpg">>,
      <<"https://", "tblg.k-img.com", "/", "img", ".gif">>,
      <<"img", ".jpg">>,
      <<>> }

GoogleCandidates ==
    { <<"https://", GoogleHost, "/", "p", "=w1", "-h1">>,
      <<"https://", GoogleHost, "/", "p", "=s1">>,
      <<"https://", GoogleHost, "/", "p">>,
      <<"//", GoogleHost, "/", "p", "=h1">>,
      <<"https://", GoogleHost, "/", "p", "p", "=w1">>,
      <<"https://", GoogleHost, "/", "p", "/s1/", "p">>,
      <<"https://", "cdn.example", "/", "p", ".jpg">>,
      <<"https://", GoogleHost, "/", "icon">>,
      <<"https://", GoogleHost, "/", "150x150">>,
      <<"https://", "cdn.example", "/", "p", ".webp">>,
      <<"https://", "cdn.example", "/", "p", ".gif">>,
      <<"p", ".jpg">> }

Candidates(k) == IF k = "google" THEN GoogleCandidates ELSE GenericCandidates

AddInit ==
    /\ kind \in {"generic", "google"}
    /\ base_url \in Bases(kind)
    /\ max_count \in (IF kind = "google" THEN 0..MaxCount ELSE {0})
    /\ results = <<>>
    /\ seen_urls = {}
    /\ arg = <<>>
    /\ ret = "None"
    /\ outcome = "start"
    /\ NormIdle /\ WebpIdle /\ XformIdle /\ HarvIdle /\ OtherIdle

\* one call of photo_extractor._add_image_url
AddImageUrl ==
    /\ kind = "generic"
    /\ \E url \in GenericCandidates :
         LET r == add_image_url(results, seen_urls, url, base_url)
         IN  /\ results' = r.results
             /\ seen_urls' = r.seen_urls
             /\ ret' = r.ret
             /\ outcome' = r.outcome
             /\ arg' = url
    /\ UNCHANGED <<kind, base_url, max_count, normVars, webpVars, xformVars, harvVars, otherVars>>

\* one call of google_maps_extractor._add_image_url
GoogleAddImageUrl ==
    /\ kind = "google"
    /\ \E url \in GoogleCandidates :
         LET r == google_add_image_url(results, seen_urls, url, base_url, max_count)
         IN  /\ results' = r.results
             /\ seen_urls' = r.seen_urls
             /\ ret' = r.ret
             /\ outcome' = r.outcome
             /\ arg' = url
    /\ UNCHANGED <<kind, base_url, max_count, normVars, webpVars, xformVars, harvVars, otherVars>>

AddNext == AddImageUrl \/ GoogleAddImageUrl

SpecAdd == AddInit /\ [][AddNext]_vars

\* C2: no two descriptors of results have the same url, whatever sequence
\* of _add_image_url calls built the list (either extractor).
C2_UniqueUrls ==
    \A i, j \in 1..Len(results) : results[i].url = results[j].url => i = j

\* C2 witness: a call was dropped as a duplicate although its raw URL differs
\* from the raw URL first seen for the same normalised URL, and the list
\* holds exactly one descriptor for that normalised URL.
C2_Witness ==
    /\ outcome = "duplicate"
    /\ \E i \in 1..Len(results) :
         /\ results[i].url = Normalizer(kind, arg, base_url)
         /\ results[i].thumb_url # arg
         /\ Cardinality({j \in 1..Len(results) : results[j].url = results[i].url}) = 1

\* C22: under any sequence of _add_image_url calls, seen_urls is exactly the
\* set of the url fields of results, every descriptor's url is the
\* normalised form of its thumb_url for the base URL of the calls, and
\* results is append-only: a call leaves the descriptors already held as
\* they are, in their order, and adds at most one at the end.
C22_ResultsAndSeenConsistent ==
    /\ [](/\ seen_urls = {results[k].url : k \in 1..Len(results)}
          /\ \A k \in 1..Len(results) :
                results[k].url = Normalizer(kind, results[k].thumb_url, base_url))
    /\ [][/\ Len(results') \in {Len(results), Len(results) + 1}
          /\ SubSeq(results', 1, Len(results)) = results]_vars

\* C22 witness: a second raw form of the first descriptor's URL was dropped
\* as a duplicate; the descriptor kept the raw URL first observed, which is
\* not its own normalised form, and a later descriptor follows it.
C22_Witness ==
    /\ outcome = "duplicate" /\ Len(results) >= 2
    /\ results[1].url = Normalizer(kind, arg, base_url)
    /\ results[1].thumb_url # arg
    /\ results[1].thumb_url # results[1].url

\* the reject conditions of the candidate filter as the claim lists them
C14_Rejected(url) ==
    \/ url = <<>>
    \/ UrlLen(url) < 20
    \/ HasLower(url, {"pixel", "tracking", "blank", "avatar", "icon", "1x1", "imgvc.com"})
    \/ Has(url, {"150x150", "100x100"})
    \/ ~HasLower(url, {".jpg", ".jpeg", ".png", ".webp", GoogleHost})

\* C14 as stated: neither _add_image_url appends a descriptor for a raw URL
\* that is shorter than 20 characters, holds a noise word or an avatar
\* dimension token, or lacks every accepted substring; any other URL is
\* accepted (appended, unless its normal form is already held or, in the
\* Maps extractor, max_count is reached).
C14_FilterRules ==
    outcome # "start" =>
        /\ C14_Rejected(arg) => outcome # "added"
        /\ ~C14_Rejected(arg) => outcome \in {"added", "duplicate", "full"}

\* C14 for the generic extractor alone, and for the Maps extractor alone
C14_GenericFilterRules == kind = "generic" => C14_FilterRules
C14_GoogleFilterRules == kind = "google" => C14_FilterRules

(***************************************************************************)
(* image_processor.save_as_webp.  The WebP encoder is deterministic: an    *)
(* image has one encoded size at each quality.  That size is drawn here    *)
(* as a step function of the quality with two thresholds and three sizes,  *)
(* monotone or not.                                                        *)
(***************************************************************************)
WEBP_TARGET_BYTES == 100000
InitialQuality == 82
MaxAttempts == 15
QualityDown == 8
MinQuality == 20
QualityUp == 5
MaxQuality == 95

EncodedSizes == {60000, 70000, 95000, 130000, 135000, 140000}
QualityThresholds == {25, 30, 50, 75, 90}
Encoders ==
    { <<t1, t2, s0, s1, s2>> :
        t1 \in QualityThresholds, t2 \in QualityThresholds,
        s0 \in EncodedSizes, s1 \in EncodedSizes, s2 \in EncodedSizes }

\* len(buf.getvalue()) after img.save(buf, "WEBP", quality=q, method=6)
Encode(e, q) == IF q < e[1] THEN e[3] ELSE IF q < e[2] THEN e[4] ELSE e[5]

\* target_bytes * 0.7 <= size <= target_bytes * 1.3
InBandStrict(size, target) == 7 * target < 10 * size /\ 10 * size < 13 * target
InBand(size, target) == 7 * target <= 10 * size /\ 10 * size <= 13 * target

\* the quality of the next attempt after an out-of-band one
NextQualityUnclamped(q, size, target) ==
    IF size > target THEN q - QualityDown ELSE q + QualityUp
NextQuality(q, size, target) ==
    IF size > target THEN Max(MinQuality, q - QualityDown)
    ELSE Min(MaxQuality, q + QualityUp)

Dist(a, b) == IF a >= b THEN a - b ELSE b - a

\* the attempt nearest to the target (the earliest of them)
ClosestAttempt(as, target) ==
    LET best == CHOOSE i \in 1..Len(as) :
                  \A j \in 1..Len(as) :
                     \/ Dist(as[i].size, target) < Dist(as[j].size, target)
                     \/ (Dist(as[i].size, target) = Dist(as[j].size, target) /\ i <= j)
    IN  as[best]
\* buf.getvalue() after the loop: the buffer of the last attempt
BufferAfterLoop(as, target) == as[Len(as)]

\* a loop that allows one encode more than range(15)
LoopExhaustedLate(n) == n >= MaxAttempts + 1
\* "for _ in range(15)" has no iteration left after n of them
LoopExhausted(n) == n >= MaxAttempts

WebpInit ==
    /\ encoder \in Encoders
    /\ target_bytes = WEBP_TARGET_BYTES
    /\ quality = InitialQuality
    /\ attempts = <<>>
    /\ payload = <<>>
    /\ wpc = "loop"
    /\ kind = "none" /\ base_url = <<>>
    /\ NormIdle /\ AddIdle /\ XformIdle /\ HarvIdle /\ OtherIdle

\* one iteration of "for _ in range(15)"
WebpAttempt ==
    /\ wpc = "loop"
    /\ ~LoopExhausted(Len(attempts))
    /\ LET size == Encode(encoder, quality)
           att  == [quality |-> quality, size |-> size]
       IN  /\ attempts' = Append(attempts, att)
           /\ IF InBand(size, target_bytes)
              THEN /\ payload' = <<att>>
                   /\ wpc' = "returned"
                   /\ UNCHANGED quality
              ELSE /\ quality' = NextQuality(quality, size, target_bytes)
                   /\ UNCHANGED <<payload, wpc>>
    /\ UNCHANGED <<encoder, target_bytes, kind, base_url, normVars, addVars, xformVars, harvVars, otherVars>>

\* the loop is exhausted: return buf.getvalue()
WebpExhausted ==
    /\ wpc = "loop"
    /\ LoopExhausted(Len(attempts))
    /\ payload' = <<BufferAfterLoop(attempts, target_bytes)>>
    /\ wpc' = "returned"
    /\ UNCHANGED <<encoder, target_bytes, quality, attempts, kind, base_url,
                   normVars, addVars, xformVars, harvVars, otherVars>>

WebpNext == WebpAttempt \/ WebpExhausted

\* the call runs to its end: no step of it waits for anything
SpecWebp == WebpInit /\ [][WebpNext]_vars /\ WF_vars(WebpNext)

AttemptInBand(i) ==
    /\ 7 * 100000 <= 10 * attempts[i].size
    /\ 10 * attempts[i].size <= 13 * 100000
NoAttemptInBand == \A i \in 1..Len(attempts) : ~AttemptInBand(i)

C6_Budget ==
    /\ Len(attempts) <= 15
    /\ wpc = "returned" =>
         /\ Len(payload) = 1
         /\ payload[1] = attempts[Len(attempts)]
         /\ NoAttemptInBand => (Len(attempts) = 15 /\ payload[1] = attempts[15])
    /\ wpc = "loop" => payload = <<>>

\* C6: save_as_webp always terminates and returns an encoded payload after at
\* most 15 encode attempts, whatever sizes the encoder gives; when no
\* attempt lands in the band it returns the payload of the 15th attempt.
C6_TerminatesWithinBudget == [](C6_Budget) /\ <>(wpc = "returned")

\* C6 witness: fifteen attempts, none in the band, and the 15th returned
C6_Witness ==
    /\ wpc = "returned" /\ Len(attempts) = 15 /\ NoAttemptInBand
    /\ payload = <<attempts[15]>>

\* C7: the first attempt whose size lies within [0.7, 1.3] * target_bytes is
\* returned at once and no further encode is made.
C7_FirstInBandReturned ==
    \A i \in 1..Len(attempts) :
        AttemptInBand(i) =>
            /\ i = Len(attempts)
            /\ wpc = "returned"
            /\ payload = <<attempts[i]>>

\* C7 witness: the scenario of the specification: 140,000 bytes at quality
\* 82, then 95,000 bytes at quality 74, returned after two encodes.
C7_Witness ==
    /\ wpc = "returned"
    /\ attempts = << [quality |-> 82, size |-> 140000],
                     [quality |-> 74, size |-> 95000] >>
    /\ payload = << [quality |-> 74, size |-> 95000] >>

\* C8: quality starts at 82; after an out-of-band attempt larger than the
\* target the next quality is 8 lower but not below 20, after a smaller one
\* 5 higher but not above 95; every encode uses a quality in 20..95.
C8_QualitySteps ==
    /\ Len(attempts) >= 1 => attempts[1].quality = 82
    /\ \A i \in 1..Len(attempts) :
          attempts[i].quality >= 20 /\ attempts[i].quality <= 95
    /\ \A i \in 1..(Len(attempts) - 1) :
          IF attempts[i].size > 100000
          THEN attempts[i + 1].quality =
                 (IF attempts[i].quality - 8 < 20 THEN 20 ELSE attempts[i].quality - 8)
          ELSE attempts[i + 1].quality =
                 (IF attempts[i].quality + 5 > 95 THEN 95 ELSE attempts[i].quality + 5)
    /\ wpc = "loop" => (quality >= 20 /\ quality <= 95)

\* C8 witness: the floor is met (quality 26, too large, next quality 20) and
\* the attempt at quality 20, too small, is followed by one at quality 25.
C8_Witness ==
    \E i \in 1..(Len(attempts) - 2) :
        /\ attempts[i].quality = 26 /\ attempts[i].size > 100000
        /\ attempts[i + 1].quality = 20 /\ attempts[i + 1].size < 100000
        /\ attempts[i + 2].quality = 25

\* C9 as stated: when the band is not hit within the budget, no attempt made
\* is strictly nearer to target_bytes than the returned payload.
C9_ClosestAchieved ==
    (wpc = "returned" /\ NoAttemptInBand) =>
        \A i \in 1..Len(attempts) :
            Dist(attempts[i].size, 100000) >= Dist(payload[1].size, 100000)

\* C9 as amended: when the band is not hit within the budget, the payload
\* returned is that of the last (15th) attempt, whether or not an earlier
\* attempt was nearer to target_bytes.
C9_ReturnsLastAttempt ==
    (wpc = "returned"
       /\ ~(7 * 100000 <= 10 * payload[1].size /\ 10 * payload[1].size <= 13 * 100000)) =>
        /\ Len(attempts) = 15
        /\ payload[1] = attempts[15]
        /\ NoAttemptInBand

\* C9 witness: the band was missed, the 15th attempt was returned, and an
\* earlier attempt was strictly nearer to the target.
C9_Witness ==
    /\ wpc = "returned" /\ NoAttemptInBand /\ payload = <<attempts[15]>>
    /\ \E i \in 1..14 :
          Dist(attempts[i].size, 100000) < Dist(payload[1].size, 100000)


(***************************************************************************)
(* image_processor.process_image.  A bitmap is modelled by its size.       *)
(* int(x) of a Python float truncates toward zero; the quotients below are *)
(* exact for the sizes drawn here (each was compared with the double       *)
(* arithmetic of the source).                                              *)
(***************************************************************************)
\* int(a / b) for integers a and b > 0
IntDiv(a, b) == IF a >= 0 THEN a \div b ELSE -((-a) \div b)

SIZE_PRESETS == {<<1080, 1350>>, <<1024, 682>>}
\* margin_percent = 0.03, in hundredths
MarginPercent == 3

\* the box center_crop_resize hands to img.crop; the whole image when the
\* aspect ratios are equal
CropBox(src_w, src_h, target_w, target_h) ==
    IF src_w * target_h > target_w * src_h
    THEN LET new_w == (src_h * target_w) \div target_h
             left  == (src_w - new_w) \div 2
         IN  <<left, 0, left + new_w, src_h>>
    ELSE IF src_w * target_h < target_w * src_h
    THEN LET new_h == (src_w * target_h) \div target_w
             top   == (src_h - new_h) \div 2
         IN  <<0, top, src_w, top + new_h>>
    ELSE <<0, 0, src_w, src_h>>

\* Image.crop: the size of the cropped bitmap
CropSize(box) == <<box[3] - box[1], box[4] - box[2]>>

\* Image.resize(size): a bitmap of the requested size, from a source of any
\* size (an empty box included); it raises when the requested size has a
\* dimension below 1
ResizeRaises(size) == size[1] < 1 \/ size[2] < 1

\* center_crop_resize without the final resize
center_crop_only(s, target) == CropSize(CropBox(s[1], s[2], target[1], target[2]))
\* center_crop_resize: the size of the bitmap returned
center_crop_resize(s, target) == target

\* resize_logo_by_width: the size requested of logo.resize
resize_logo_by_width(lg, base_width, percent) ==
    LET target_width == (base_width * percent) \div 100
        new_h == (lg[2] * target_width) \div lg[1]
    IN  <<target_width, new_h>>

\* paste_logo: the position handed to base.paste
paste_logo(base, lg, a) ==
    LET bw == base[1]
        bh == base[2]
        lw == lg[1]
        lh == lg[2]
        margin == (Min(bw, bh) * MarginPercent) \div 100
        custom == a.position = "custom" /\ a.custom_x # -1 /\ a.custom_y # -1
        x == IF custom THEN IntDiv((bw - lw) * a.custom_x, 100)
             ELSE IF a.position \in {"bottom_right", "top_right"} THEN bw - lw - margin
             ELSE margin
        y == IF custom THEN IntDiv((bh - lh) * a.custom_y, 100)
             ELSE IF a.position \in {"bottom_right", "bottom_left"} THEN bh - lh - margin
             ELSE margin
    IN  << Max(0, Min(bw - lw, x + a.offset_x)),
           Max(0, Min(bh - lh, y + a.offset_y)) >>

SourceSizes == { <<1, 1>>, <<1, 5000>>, <<5000, 1>>, <<4000, 3000>>, <<3000, 4000>>,
                 <<1080, 1350>>, <<1024, 682>>, <<800, 1000>>, <<1081, 1350>>,
                 <<2048, 1364>>, <<100, 100>>, <<3, 2>>, <<2, 3>> }
LogoSizes == { <<100, 200>>, <<300, 100>>, <<200, 200>>, <<2000, 5>> }
\* logo_width_percent, in hundredths
LogoPercents == {15, 25, 40}
LogoPositions == {"bottom_right", "bottom_left", "top_right", "top_left", "custom"}
\* custom_x_percent and custom_y_percent; -1 stands for None
CustomPercents == {-1, 0, 85, 100}
PixelOffsets == {-2000, 0, 7, 2000}

XformInit ==
    /\ src \in SourceSizes
    /\ size_preset \in SIZE_PRESETS
    /\ crop_box = <<>>
    /\ img = src
    /\ logo_src = <<>>
    /\ logo = <<>>
    /\ logo_args = <<>>
    /\ place = <<>>
    /\ enhanced = FALSE
    /\ tpc = "start"
    /\ kind = "none" /\ base_url = <<>>
    /\ NormIdle /\ AddIdle /\ WebpIdle /\ HarvIdle /\ OtherIdle

xformRest == <<kind, base_url, normVars, addVars, webpVars, harvVars, otherVars>>

\* result = center_crop_resize(img, target_w, target_h)
CenterCropResize ==
    /\ tpc = "start"
    /\ crop_box' = CropBox(src[1], src[2], size_preset[1], size_preset[2])
    /\ img' = center_crop_resize(src, size_preset)
    /\ tpc' = "cropped"
    /\ UNCHANGED <<src, size_preset, logo_src, logo, logo_args, place, enhanced, xformRest>>

\* logo is not None: logo_resized = resize_logo_by_width(logo, target_w, percent);
\* the opacity and the two outlines keep the size
ResizeLogo ==
    /\ tpc = "cropped"
    /\ \E lg \in LogoSizes, pc \in LogoPercents :
         LET size == resize_logo_by_width(lg, size_preset[1], pc)
         IN  /\ logo_src' = lg
             /\ logo_args' = [percent |-> pc]
             /\ IF ResizeRaises(size)
                THEN tpc' = "raised" /\ UNCHANGED logo
                ELSE tpc' = "logo_resized" /\ logo' = size
    /\ UNCHANGED <<src, size_preset, crop_box, img, place, enhanced, xformRest>>

\* result = paste_logo(result, logo_resized, position, custom, offsets)
PasteLogo ==
    /\ tpc = "logo_resized"
    /\ \E pos \in LogoPositions, cx \in CustomPercents, cy \in CustomPercents,
          ox \in PixelOffsets, oy \in PixelOffsets :
         /\ pos # "custom" => (cx = -1 /\ cy = -1)
         /\ logo_args' = [percent |-> logo_args.percent, position |-> pos,
                          custom_x |-> cx, custom_y |-> cy,
                          offset_x |-> ox, offset_y |-> oy]
         /\ place' = paste_logo(img, logo, logo_args')
    /\ tpc' = "pasted"
    /\ UNCHANGED <<src, size_preset, crop_box, img, logo_src, logo, enhanced, xformRest>>

\* if target_h > target_w: result = enhance_for_mobile(result); return result
ReturnResult ==
    /\ \/ tpc = "cropped" /\ logo_src = <<>>
       \/ tpc = "pasted"
    /\ enhanced' = (size_preset[2] > size_preset[1])
    /\ tpc' = "returned"
    /\ UNCHANGED <<src, size_preset, crop_box, img, logo_src, logo, logo_args, place,
                   xformRest>>

XformNext == CenterCropResize \/ ResizeLogo \/ PasteLogo \/ ReturnResult

SpecXform == XformInit /\ [][XformNext]_vars

\* C4 as stated: the logo's bounding box at the placement paste_logo computes
\* lies inside the canvas, for every logo size, placement mode and offset.
C4_LogoContained ==
    tpc \in {"pasted", "returned"} /\ place # <<>> =>
        /\ 0 <= place[1]
        /\ 0 <= place[2]
        /\ place[1] + logo[1] <= img[1]
        /\ place[2] + logo[2] <= img[2]

C19_MarginsAndBounds ==
    crop_box # <<>> =>
        LET left == crop_box[1]   upper == crop_box[2]
            right == crop_box[3]  lower == crop_box[4]
            wider == src[1] * size_preset[2] > size_preset[1] * src[2]
            narrower == src[1] * size_preset[2] < size_preset[1] * src[2]
        IN  /\ wider => /\ upper = 0 /\ lower = src[2]
                        /\ (src[1] - right) - left \in {-1, 0, 1}
            /\ narrower => /\ left = 0 /\ right = src[1]
                           /\ (src[2] - lower) - upper \in {-1, 0, 1}
            /\ (~wider /\ ~narrower) => crop_box = <<0, 0, src[1], src[2]>>
            /\ 0 <= left /\ left <= right /\ right <= src[1]
            /\ 0 <= upper /\ upper <= lower /\ lower <= src[2]

\* C19 as stated: the margins and bounds above, and the crop box is never
\* empty.
C19_CenterCropBox ==
    /\ C19_MarginsAndBounds
    /\ crop_box # <<>> => (crop_box[1] < crop_box[3] /\ crop_box[2] < crop_box[4])

(***************************************************************************)
(* The page harvesters.  The page is a catalogue of elements in document   *)
(* order, of which the first `visible` are in the DOM; scrolling may       *)
(* reveal more of them.  Each element exposes one image reference through  *)
(* one attribute.                                                          *)
(***************************************************************************)
MAX_IMAGES_DEFAULT == 30
\* max_no_new
MaxNoNew == 5
\* for scroll_attempt in range(30)
MapsScrollRange == 30
\* max_scrolls
MaxScrolls == 50
\* if scroll_attempts >= 3: break
StableHeights == 3
\* if len(results) < 5: the JavaScript fallback runs
FallbackBelow == 5

\* elements of the Google Maps page's catalogue
CatalogueLen == 42
\* elements one scroll can reveal
Chunk == 14
\* largest document.body.scrollHeight drawn
MaxHeight == 2
\* scroll commands after which the model stops following the generic harvester
ScrollCap == 52
\* element exceptions a flaky page raises in one harvest
MaxSwallowed == 1

MaxImagesArgs == {0, 2, 31}

SetMin(S) == CHOOSE x \in S : \A y \in S : x <= y
\* the first element i in from..v with attribute test P, or 0
FirstOf(S) == IF S = {} THEN 0 ELSE SetMin(S)

PathLetters == <<"a", "b", "c", "d", "e", "f", "g">>

\* element i of the Google Maps page: every 8th element shows the photo of
\* the element before it at another size, some elements are icons
MapsElement(i) ==
    LET pid  == i - (i \div 8)
        path == << "https://", GoogleHost, "/",
                   PathLetters[((pid \div 7) % 7) + 1], PathLetters[(pid % 7) + 1] >>
        size == IF i % 8 = 0 THEN <<"=s1">>
                ELSE IF i % 3 = 0 THEN <<"=w1", "-h1">>
                ELSE IF i % 3 = 1 THEN <<"=w1">>
                ELSE <<>>
    IN  [ attr |-> IF i % 3 = 1 THEN "src" ELSE IF i % 3 = 2 THEN "data-src" ELSE "style",
          url  |-> IF i % 11 = 5 THEN <<"https://", GoogleHost, "/", "icon">>
                   ELSE path \o size ]

NextMaps(attr, from, v) == FirstOf({i \in from..v : MapsElement(i).attr = attr})

\* the elements of the generic page
GenericCatalogue ==
    << [attr |-> "src",      url |-> <<"https://", "tblg.k-img.com", "/", "img", "_s", ".jpg">>],
       [attr |-> "href",     url |-> <<"https://", HotpHost, "/", "img", ".webp">>],
       [attr |-> "data-src", url |-> <<"https://", "tblg.k-img.com", "/", "img", ".jpg", "?", "w=", "1">>],
       [attr |-> "src",      url |-> <<"https://", "tblg.k-img.com", "/", "img", "_m", ".jpg">>],
       [attr |-> "href",     url |-> <<"https://", "tblg.k-img.com", "/", "img", "/320x320_rect_", "1", ".jpg">>],
       [attr |-> "src",      url |-> <<"https://", "tblg.k-img.com", "/", "icon", ".jpg">>],
       [attr |-> "src",      url |-> <<"https://", "tblg.k-img.com", "/", "img", "1", ".jpg">>],
       [attr |-> "data-src", url |-> <<"//", "tblg.k-img.com", "/", "img", "_thumb", ".jpg">>],
       [attr |-> "src",      url |-> <<"https://", "tblg.k-img.com", "/", "img", "1", "1", ".jpg">>],
       [attr |-> "href",     url |-> <<"https://", "tblg.k-img.com", "/", "img", "_s", "1", ".jpg">>] >>

\* img[src]; img[data-src], img[data-lazy-src];
\* a[href*="tblg.k-img.com"], a[href*=".jpg"], a[href*=".jpeg"], a[href*=".png"]
GenSelected(phase, e) ==
    CASE phase = "gen_src"  -> e.attr = "src"
      [] phase = "gen_data" -> e.attr = "data-src"
      [] phase = "gen_href" ->
            e.attr = "href" /\ Has(e.url, {"tblg.k-img.com", ".jpg", ".jpeg", ".png"})
      \* the JavaScript fallback over img[src], a[href]
      [] phase = "gen_js" ->
            /\ e.attr \in {"src", "href"}
            /\ HasLower(e.url, GenericExts)
            /\ Has(e.url, {"tblg.k-img.com", HotpHost})

NextGen(phase, from, v) ==
    FirstOf({i \in from..v : GenSelected(phase, GenericCatalogue[i])})

EffectiveMaxImages(m) == Min(IF m <= 0 THEN MAX_IMAGES_DEFAULT ELSE m, 30)

\* results[:max_images]
Slice(res, n) == SubSeq(res, 1, Min(Len(res), n))


\* selector candidates of the three steps of the navigation sub-protocol
PlaceSelectors == 4
PhotoTabSelectors == 7
OwnerSelectors == 5

\* what the page gives a step's candidates: candidate `first` is the first
\* one that is present and whose click succeeds (0: none is), and the
\* candidates before it are all absent ("absent": count() = 0) or all raise
\* when tried ("fails")
Doms(n) == [first : 0..n, before : {"absent", "fails"}]
NoDom == [first |-> 0, before |-> "none"]
NoFault == [kind |-> "none", at |-> "none"]
\* the exceptions a Playwright call raises: TimeoutError, or another Error
FaultKinds == {"timeout", "error"}

HarvInit ==
    /\ kind \in {"generic", "google"}
    /\ max_images_arg \in (IF kind = "google" THEN MaxImagesArgs ELSE {0})
    /\ max_images = (IF kind = "google" THEN EffectiveMaxImages(max_images_arg) ELSE 0)
    /\ hpc = "launch"
    /\ page \in (IF kind = "google" THEN {"bursty", "drip", "flaky"} ELSE {"bursty"})
    /\ base_url = <<>>
    /\ results = <<>> /\ seen_urls = {} /\ arg = <<>> /\ ret = "None" /\ outcome = "start"
    /\ max_count = 0
    /\ visible = 0 /\ height = 0 /\ idx = 0 /\ last_count = 0 /\ no_new_count = 0
    /\ scroll_attempt = 0 /\ last_height = 0 /\ scroll_attempts = 0 /\ scrolls = 0
    /\ returned = <<>>
    /\ session = "none" /\ closes = 0 /\ fault = NoFault
    /\ dom = NoDom /\ sel = 0 /\ clicked = FALSE /\ tab_clicked = FALSE
    /\ swallowed = 0
    /\ NormIdle /\ WebpIdle /\ XformIdle /\ OtherIdle

\* finally: browser.close()
Close ==
    /\ session' = "closed"
    /\ closes' = closes + 1

\* leave the try block and return: results (generic), results[:max_images] (Maps)
Return ==
    /\ hpc' = "returned"
    /\ returned' = IF kind = "google" THEN Slice(results, max_images) ELSE results
    /\ Close

\* a Playwright call of the try block raises: "except PlaywrightTimeout: pass"
\* returns the results, "except Exception: raise" re-raises; finally closes
Fail(k, at) ==
    /\ fault' = [kind |-> k, at |-> at]
    /\ IF k = "timeout"
       THEN Return
       ELSE hpc' = "raised" /\ Close /\ UNCHANGED returned

\* the variables no step of the session set-up and navigation changes
navRest == <<kind, page, base_url, addVars, max_images_arg, max_images, height, idx,
             last_count, no_new_count, scroll_attempt, last_height, scroll_attempts,
             scrolls, swallowed, normVars, webpVars, xformVars, otherVars>>

\* p.chromium.launch(...), browser.new_context(...), context.new_page():
\* all three stand before the try statement, so an exception of any of them
\* leaves the function without passing "finally: browser.close()"
HarvLaunch ==
    /\ hpc \in {"launch", "context", "new_page"}
    /\ \/ /\ hpc' = (CASE hpc = "launch" -> "context"
                       [] hpc = "context" -> "new_page"
                       [] hpc = "new_page" -> "goto")
          /\ session' = "open"
          /\ UNCHANGED fault
       \/ \E k \in FaultKinds :
             /\ hpc' = "raised"
             /\ fault' = [kind |-> k, at |-> hpc]
             /\ UNCHANGED session
    /\ UNCHANGED <<navRest, visible, returned, closes, dom, sel, clicked, tab_clicked>>

\* page.goto(...): the page loads, or the call raises
HarvGoto ==
    /\ hpc = "goto"
    /\ \/ /\ kind = "google"
          /\ hpc' = "place"
          /\ visible' \in (IF page = "flaky" THEN {Chunk} ELSE {0, Chunk})
          /\ dom' \in Doms(PlaceSelectors)
          /\ sel' = 1
          /\ UNCHANGED <<returned, session, closes, fault>>
       \/ /\ kind = "generic"
          /\ hpc' = "gen_scroll"
          /\ UNCHANGED <<visible, returned, session, closes, fault, dom, sel>>
       \/ /\ \E k \in FaultKinds : Fail(k, "goto")
          /\ UNCHANGED <<visible, dom, sel>>
    /\ UNCHANGED <<navRest, clicked, tab_clicked>>

\* one candidate of a step's selector list: page.locator(sel).first,
\* count() > 0, click(); an exception goes on to the next candidate
TrySelector(n) ==
    IF sel > n THEN "exhausted"
    ELSE IF sel = dom.first THEN "clicked"
    ELSE "next"

\* step 2: one candidate of place_selectors, or, the list exhausted without a
\* click, the fallback click of the first selector; whatever that click
\* raises is raised again as RuntimeError
MapsPlace ==
    /\ hpc = "place"
    /\ LET t == TrySelector(PlaceSelectors)
           toTab == /\ hpc' = "tab"
                    /\ clicked' = TRUE
                    /\ dom' \in Doms(PhotoTabSelectors)
                    /\ sel' = 1
                    /\ UNCHANGED <<fault, returned, session, closes>>
       IN  CASE t = "clicked" -> toTab
             [] t = "next" ->
                    /\ sel' = sel + 1
                    /\ UNCHANGED <<hpc, clicked, dom, fault, returned, session, closes>>
             [] t = "exhausted" ->
                    \/ toTab
                    \/ \E k \in FaultKinds :
                          /\ fault' = [kind |-> k, at |-> "place"]
                          /\ hpc' = "raised"
                          /\ Close
                          /\ UNCHANGED <<clicked, dom, sel, returned>>
    /\ UNCHANGED <<navRest, visible, tab_clicked>>

\* step 3: one candidate of photo_tab_selectors, or, the list exhausted
\* without a click, window.scrollTo(0, 300), whose exception is passed over
MapsPhotoTab ==
    /\ hpc = "tab"
    /\ LET t == TrySelector(PhotoTabSelectors)
       IN  IF t = "next"
           THEN /\ sel' = sel + 1
                /\ UNCHANGED <<hpc, tab_clicked, dom>>
           ELSE /\ tab_clicked' = (t = "clicked")
                /\ hpc' = "owner"
                /\ dom' \in Doms(OwnerSelectors)
                /\ sel' = 1
    /\ UNCHANGED <<navRest, visible, returned, session, closes, fault, clicked>>

\* step 4: one candidate of owner_selectors; then base_url = page.url and
\* the loop variables are set
MapsOwner ==
    /\ hpc = "owner"
    /\ LET t == TrySelector(OwnerSelectors)
       IN  IF t = "next"
           THEN /\ sel' = sel + 1
                /\ UNCHANGED <<hpc, dom, base_url, last_count, no_new_count, scroll_attempt>>
           ELSE /\ hpc' = "loop"
                /\ dom' = NoDom
                /\ sel' = 0
                /\ base_url' = <<"https://", "www.google.com", "/", "maps", "/", "place", "/">>
                /\ last_count' = 0
                /\ no_new_count' = 0
                /\ scroll_attempt' = 0
    /\ UNCHANGED <<kind, page, addVars, max_images_arg, max_images, visible, height, idx,
                   last_height, scroll_attempts, scrolls, returned, session, closes,
                   fault, clicked, tab_clicked, swallowed,
                   normVars, webpVars, xformVars, otherVars>>

\* the variables of the session and of the navigation steps, which the
\* collecting loop reads no more
stepVars == <<dom, sel, clicked, tab_clicked>>
loopRest == <<kind, page, base_url, max_images_arg, max_images, height, last_height,
              scroll_attempts, stepVars, normVars, webpVars, xformVars, otherVars>>

\* head of "for scroll_attempt in range(30)", the first break, and
\* page.query_selector_all of the first enumeration loop
MapsLoopHead ==
    /\ hpc = "loop"
    /\ IF scroll_attempt >= MapsScrollRange \/ Len(results) >= max_images
       THEN Return /\ UNCHANGED <<idx, fault>>
       ELSE \/ /\ hpc' = "enum_src"
               /\ idx' = NextMaps("src", 1, visible)
               /\ UNCHANGED <<returned, session, closes, fault>>
            \/ /\ \E k \in FaultKinds : Fail(k, "enum")
               /\ UNCHANGED idx
    /\ UNCHANGED <<loopRest, addVars, visible, last_count, no_new_count, scroll_attempt,
                   scrolls, swallowed>>

\* one element of one of the three enumeration loops of the Maps harvester.
\* In the first two loops a False from _add_image_url leaves the loop; in the
\* third it leaves only the loop over the URLs of that element's style.  An
\* exception of get_attribute is passed over and the element with it; one of
\* page.query_selector_all, at the head of the next loop, leaves the try block.
MapsEnumStep(phase, attr, nextPhase, nextAttr, breaks) ==
    /\ hpc = phase
    /\ IF idx = 0
       THEN /\ UNCHANGED <<addVars, swallowed>>
            /\ \/ /\ hpc' = nextPhase
                  /\ idx' = NextMaps(nextAttr, 1, visible)
                  /\ UNCHANGED <<returned, session, closes, fault>>
               \/ /\ nextPhase # "after_enum"
                  /\ \E k \in FaultKinds : Fail(k, "enum")
                  /\ UNCHANGED idx
       ELSE \/ LET url == MapsElement(idx).url
                   r   == google_add_image_url(results, seen_urls, url, base_url, max_images)
               IN  /\ results' = r.results
                   /\ seen_urls' = r.seen_urls
                   /\ ret' = r.ret
                   /\ outcome' = r.outcome
                   /\ arg' = url
                   /\ UNCHANGED <<max_count, swallowed, returned, session, closes, fault>>
                   /\ IF breaks /\ r.ret = FALSE
                      THEN hpc' = nextPhase /\ idx' = NextMaps(nextAttr, 1, visible)
                      ELSE hpc' = phase /\ idx' = NextMaps(attr, idx + 1, visible)
            \/ /\ page = "flaky"
               /\ swallowed < MaxSwallowed
               /\ swallowed' = swallowed + 1
               /\ idx' = NextMaps(attr, idx + 1, visible)
               /\ UNCHANGED <<addVars, hpc, returned, session, closes, fault>>
    /\ UNCHANGED <<loopRest, visible, last_count, no_new_count, scroll_attempt, scrolls>>

MapsEnumSrc     == MapsEnumStep("enum_src", "src", "enum_data", "data-src", TRUE)
MapsEnumDataSrc == MapsEnumStep("enum_data", "data-src", "enum_style", "style", TRUE)
MapsEnumStyle   == MapsEnumStep("enum_style", "style", "after_enum", "none", FALSE)

\* after the enumeration: the second break and the convergence counter
MapsAfterEnum ==
    /\ hpc = "after_enum"
    /\ IF Len(results) >= max_images
       THEN Return /\ UNCHANGED <<no_new_count, last_count>>
       ELSE IF Len(results) = last_count
       THEN /\ no_new_count' = no_new_count + 1
            /\ IF no_new_count' >= MaxNoNew
               THEN Return /\ UNCHANGED last_count
               ELSE /\ hpc' = "scroll" /\ last_count' = Len(results)
                    /\ UNCHANGED <<returned, session, closes>>
       ELSE /\ no_new_count' = 0
            /\ last_count' = Len(results)
            /\ hpc' = "scroll"
            /\ UNCHANGED <<returned, session, closes>>
    /\ UNCHANGED <<loopRest, addVars, visible, idx, scroll_attempt, scrolls, swallowed, fault>>

\* scroll the photo list; a bursty page reveals a chunk of elements or
\* nothing, a drip page one more element on every scroll, a flaky page
\* nothing.  When the scroll script and then the fallback scroll both raise,
\* the exception leaves the try block.
MapsScroll ==
    /\ hpc = "scroll"
    /\ \/ /\ scrolls' = scrolls + 1
          /\ visible' \in {Min(visible + n, CatalogueLen) :
                              n \in (CASE page = "drip" -> {1}
                                       [] page = "flaky" -> {0}
                                       [] OTHER -> {0, Chunk})}
          /\ scroll_attempt' = scroll_attempt + 1
          /\ hpc' = "loop"
          /\ UNCHANGED <<returned, session, closes, fault>>
       \/ /\ \E k \in FaultKinds : Fail(k, "scroll")
          /\ scrolls' = scrolls + 1
          /\ UNCHANGED <<visible, scroll_attempt>>
    /\ UNCHANGED <<loopRest, addVars, idx, last_count, no_new_count, swallowed>>

\* start of the enumeration of the generic harvester: base_url = page.url
GenStartEnum ==
    /\ base_url' = <<"https://", "tabelog.com", "/", "x", "/">>
    /\ visible' \in {4, Len(GenericCatalogue)}
    /\ hpc' = "gen_src"
    /\ idx' = NextGen("gen_src", 1, visible')

genRest == <<kind, page, max_images_arg, max_images, last_count, no_new_count,
             scroll_attempt, swallowed, stepVars, normVars, webpVars, xformVars, otherVars>>

\* one pass of "while scroll_attempts < max_scrolls" of the generic harvester
GenScroll ==
    /\ hpc = "gen_scroll"
    /\ IF scroll_attempts >= MaxScrolls
       THEN /\ GenStartEnum
            /\ UNCHANGED <<scrolls, height, scroll_attempts, last_height, returned,
                           session, closes, fault>>
       ELSE /\ scrolls < ScrollCap
            /\ scrolls' = scrolls + 1
            /\ \/ /\ height' \in 0..MaxHeight
                  /\ UNCHANGED <<returned, session, closes, fault>>
                  /\ IF height' = last_height
                     THEN /\ scroll_attempts' = scroll_attempts + 1
                          /\ IF scroll_attempts' >= StableHeights
                             THEN GenStartEnum /\ UNCHANGED last_height
                             ELSE /\ last_height' = height'
                                  /\ UNCHANGED <<base_url, visible, hpc, idx>>
                     ELSE /\ scroll_attempts' = 0
                          /\ last_height' = height'
                          /\ UNCHANGED <<base_url, visible, hpc, idx>>
               \/ /\ \E k \in FaultKinds : Fail(k, "scroll")
                  /\ UNCHANGED <<height, scroll_attempts, last_height, base_url, visible, idx>>
    /\ UNCHANGED <<genRest, addVars>>

\* one element of an enumeration loop of the generic harvester; after the
\* third loop the JavaScript fallback runs when fewer than 5 results are held.
\* An exception of query_selector_all, get_attribute or page.evaluate
\* leaves the try block.
GenEnumStep(phase, nextPhase) ==
    /\ hpc = phase
    /\ IF idx = 0
       THEN /\ UNCHANGED addVars
            /\ IF (nextPhase = "gen_js" /\ Len(results) >= FallbackBelow)
                  \/ nextPhase = "returned"
               THEN Return /\ UNCHANGED <<idx, fault>>
               ELSE \/ /\ hpc' = nextPhase
                       /\ idx' = NextGen(nextPhase, 1, visible)
                       /\ UNCHANGED <<returned, session, closes, fault>>
                    \/ /\ \E k \in FaultKinds : Fail(k, "enum")
                       /\ UNCHANGED idx
       ELSE \/ LET url == GenericCatalogue[idx].url
                   r   == add_image_url(results, seen_urls, url, base_url)
               IN  /\ results' = r.results
                   /\ seen_urls' = r.seen_urls
                   /\ ret' = r.ret
                   /\ outcome' = r.outcome
                   /\ arg' = url
                   /\ UNCHANGED <<max_count, hpc, returned, session, closes, fault>>
                   /\ idx' = NextGen(phase, idx + 1, visible)
            \/ /\ phase # "gen_js"
               /\ \E k \in FaultKinds : Fail(k, "enum")
               /\ UNCHANGED <<addVars, idx>>
    /\ UNCHANGED <<genRest, base_url, visible, height, last_height, scroll_attempts, scrolls>>

GenEnumSrc      == GenEnumStep("gen_src", "gen_data")
GenEnumDataSrc  == GenEnumStep("gen_data", "gen_href")
GenEnumHref     == GenEnumStep("gen_href", "gen_js")
GenEnumFallback == GenEnumStep("gen_js", "returned")

HarvNext ==
    \/ HarvLaunch \/ HarvGoto
    \/ MapsPlace \/ MapsPhotoTab \/ MapsOwner \/ MapsLoopHead
    \/ MapsEnumSrc \/ MapsEnumDataSrc \/ MapsEnumStyle
    \/ MapsAfterEnum \/ MapsScroll
    \/ GenScroll
    \/ GenEnumSrc \/ GenEnumDataSrc \/ GenEnumHref \/ GenEnumFallback

SpecHarvest == HarvInit /\ [][HarvNext]_vars

\* the state part of C3: the bound on results, the stop signal of the latest
\* call, and the bound on the returned list, with the limit as the function
\* uses it (a non-positive max_images replaced by the default first)
C3_Calls ==
    kind = "google" =>
        /\ Len(results) <= max_images
        /\ outcome # "start" => (ret = FALSE <=> Len(results) >= max_images)
C3_ReturnBound ==
    kind = "google" /\ hpc = "returned" =>
        Len(returned) <= Min(IF max_images_arg <= 0 THEN 30 ELSE max_images_arg, 30)
\* the step part of C3: a call made when max_count descriptors are held
\* changes neither results nor seen_urls
C3_FullIgnored ==
    kind = "google" /\ Len(results) >= max_images =>
        results' = results /\ seen_urls' = seen_urls

\* C3: in the Google Maps harvester len(results) never exceeds max_count,
\* every candidate offered once max_count descriptors are held leaves results
\* and seen_urls unchanged, each call returns False exactly when
\* len(results) >= max_count after it, and the returned list has at most
\* min(m, 30) entries, m being max_images when positive and 30 otherwise.
C3_MaxCountBound ==
    [](C3_Calls /\ C3_ReturnBound) /\ [][C3_FullIgnored]_vars

\* C3 as stated: the returned list has at most min(max_images, 30) entries,
\* max_images being the argument of extract_photos_from_google_maps
C3_ReturnBoundAsStated ==
    /\ C3_Calls
    /\ kind = "google" /\ hpc = "returned" => Len(returned) <= Min(max_images_arg, 30)

\* a harvest asked for 31 images returns 30 after a call was refused
C3_Witness ==
    /\ kind = "google" /\ hpc = "returned" /\ max_images_arg = 31
    /\ outcome = "full" /\ ret = FALSE /\ Len(returned) = 30

\* C10 as stated: the scrolling phase sends at most 50 scroll commands in
\* extract_photos_from_url and at most 30 in extract_photos_from_google_maps,
\* whatever the page does.
C10_ScrollCeiling ==
    scrolls <= (IF kind = "generic" THEN 50 ELSE 30)

\* C10 for the Google Maps harvester alone
C10_MapsScrollCeiling == kind = "google" => scrolls <= 30

\* the Maps loop can use up its whole range
C10_MapsRangeUsed == kind = "google" /\ hpc = "returned" /\ scroll_attempt = 30

\* C11 as stated: a Playwright timeout at the page load, at a click of the
\* navigation sub-protocol, while scrolling or while enumerating never makes
\* the harvester raise; it returns the descriptors collected up to then.
C11_TimeoutReturnsResults ==
    fault.kind = "timeout"
      /\ fault.at \in {"goto", "place", "tab", "owner", "scroll", "enum"} =>
        /\ hpc = "returned"
        /\ returned = (IF kind = "google" THEN Slice(results, max_images) ELSE results)

\* C11 outside the place step: a timeout of page.goto, of a scroll or of an
\* enumeration call ends the harvest with the results held
C11_TimeoutOutsidePlace ==
    fault.kind = "timeout" /\ fault.at \in {"goto", "scroll", "enum"} =>
        /\ hpc = "returned"
        /\ returned = (IF kind = "google" THEN Slice(results, max_images) ELSE results)

C12_ClosedAfterTry ==
    /\ closes <= 1
    /\ (hpc \in {"returned", "raised"} /\ fault.at \notin {"launch", "context", "new_page"}) =>
          (session = "closed" /\ closes = 1)

\* C13 as stated: a step of the navigation sub-protocol none of whose
\* candidates could be clicked is skipped without an exception, and the
\* harvest goes on to the collecting loop.
C13_StepsAreBestEffort ==
    hpc = "raised" => fault.at \notin {"place", "tab", "owner"}

\* C13 for the photos tab and the owner filter: neither step raises, and
\* after the tab step tab_clicked tells whether a candidate was clicked
C13_TabAndOwnerBestEffort ==
    /\ hpc = "raised" => fault.at \notin {"tab", "owner"}
    /\ tab_clicked => clicked

\* C18 as stated: the scroll loop stops for convergence once the passes that
\* added no result, counted in a row, reach the threshold (5 in the Maps
\* harvester, 3 in the generic one).  In the Maps loop the row is
\* no_new_count; in the generic loop no pass adds a result, so the row is
\* the number of passes made.
C18_ConvergesFromResultCounts ==
    /\ (kind = "google" /\ hpc = "scroll") =>
          (no_new_count < MaxNoNew /\ last_count = Len(results))
    /\ (kind = "generic" /\ hpc = "gen_scroll") =>
          (results = <<>> /\ scrolls < StableHeights)

\* C18 for the Maps harvester: after the enumeration of a pass the counter is
\* 0 when the pass added a result and one more when it did not, and the
\* loop is left for convergence exactly when the counter reaches 5
C18_MapsCounter ==
    [][(hpc = "after_enum" /\ Len(results) < max_images) =>
          /\ Len(results) > last_count => (no_new_count' = 0 /\ hpc' = "scroll")
          /\ Len(results) = last_count =>
                /\ no_new_count' = no_new_count + 1
                /\ (hpc' = "returned") <=> (no_new_count' >= MaxNoNew)]_vars

\* C18 for the generic harvester: its loop counts unchanged page heights,
\* and holds no result before it is left
C18_GenericCountsHeights ==
    (kind = "generic" /\ hpc = "gen_scroll") =>
        (results = <<>> /\ scroll_attempts < StableHeights /\ scroll_attempts <= scrolls)

(***************************************************************************)
(* app.fetch_image_bytes.  A response of requests.get is an exception      *)
(* (connection error, timeout), an HTTP error status, which                *)
(* raise_for_status turns into an exception, or a body of some length.     *)
(* A bytes value is the one-element sequence of its length; None is <<>>.  *)
(***************************************************************************)
MinPayload == 500
MaxExtra == 1

FetchUrls == {"https://tblg.k-img.com/a.jpg", "https://tblg.k-img.com/a_s.jpg"}
Lengths == {0} \cup ((MinPayload - 1) .. (MinPayload + MaxExtra))
Responses ==
    {[status |-> "exception", len |-> 0], [status |-> "http_error", len |-> 0]}
    \cup {[status |-> "ok", len |-> n] : n \in Lengths}

\* _fetch_image_bytes_inner without the test of the body's length
fetch_image_bytes_inner_any(r) ==
    IF r.status # "ok" THEN <<>> ELSE <<r.len>>

\* _fetch_image_bytes_inner, given the response requests.get came back with
fetch_image_bytes_inner(r) ==
    IF r.status # "ok" THEN <<>>
    ELSE IF r.len < MinPayload THEN <<>>
    ELSE <<r.len>>

\* truth value of a bytes-or-None value, and of a str-or-None value
Truthy(b) == b # <<>> /\ b[1] > 0
TruthyStr(t) == t \notin {"None", ""}

allButOther == <<kind, base_url, normVars, addVars, webpVars, xformVars, harvVars>>

FetchInit ==
    /\ kind = "generic" /\ base_url = <<>>
    /\ fetch_url \in FetchUrls
    /\ fallback_url \in FetchUrls \cup {"None", ""}
    /\ requested = <<>> /\ data = <<>> /\ fetched = <<>>
    /\ fpc = "start"
    /\ NormIdle /\ AddIdle /\ WebpIdle /\ XformIdle /\ HarvIdle /\ BatchIdle /\ ToneIdle /\ FrontIdle

\* data = _fetch_image_bytes_inner(url, headers); if data: return data
FetchPrimary ==
    /\ fpc = "start"
    /\ \E r \in Responses :
          /\ requested' = Append(requested, [url |-> fetch_url, response |-> r])
          /\ data' = fetch_image_bytes_inner(r)
    /\ IF Truthy(data')
          THEN fetched' = data' /\ fpc' = "returned"
          ELSE fetched' = fetched /\ fpc' = "primary_failed"
    /\ UNCHANGED <<fetch_url, fallback_url, allButOther, batchVars, toneVars, frontVars>>

\* if fallback_url and fallback_url != url:
\*     return _fetch_image_bytes_inner(fallback_url, headers)
FetchFallback ==
    /\ fpc = "primary_failed"
    /\ TruthyStr(fallback_url) /\ fallback_url # fetch_url
    /\ \E r \in Responses :
          /\ requested' = Append(requested, [url |-> fallback_url, response |-> r])
          /\ data' = fetch_image_bytes_inner(r)
    /\ fetched' = data'
    /\ fpc' = "returned"
    /\ UNCHANGED <<fetch_url, fallback_url, allButOther, batchVars, toneVars, frontVars>>

\* return None
FetchNone ==
    /\ fpc = "primary_failed"
    /\ ~(TruthyStr(fallback_url) /\ fallback_url # fetch_url)
    /\ fetched' = <<>>
    /\ fpc' = "returned"
    /\ UNCHANGED <<fetch_url, fallback_url, requested, data, allButOther, batchVars, toneVars, frontVars>>

FetchNext == FetchPrimary \/ FetchFallback \/ FetchNone

SpecFetch == FetchInit /\ [][FetchNext]_vars

\* the claim's notion of a failed request
C15_Failed(r) == r.status # "ok" \/ r.len < MinPayload
C15_Got(r) == IF C15_Failed(r) THEN <<>> ELSE <<r.len>>

C15_Common ==
    fpc = "returned" =>
        /\ Len(requested) \in {1, 2}
        /\ requested[1].url = fetch_url
        /\ fetched # <<>> => fetched[1] >= MinPayload
        /\ ~C15_Failed(requested[1].response) =>
              /\ Len(requested) = 1
              /\ fetched = C15_Got(requested[1].response)
        /\ Len(requested) = 2 =>
              /\ requested[2].url = fallback_url
              /\ fetched = C15_Got(requested[2].response)

\* C15 as stated: the primary url is requested first; when it fails (an
\* exception, an error status, or fewer than 500 bytes) the fallback url is
\* requested exactly once, and None is returned when that fails too; never
\* more than two requests, never a payload under 500 bytes.
C15_RetryOnceAsStated ==
    /\ C15_Common
    /\ (fpc = "returned" /\ C15_Failed(requested[1].response)) =>
          Len(requested) = 2

\* C15 with the retry as the code makes it: the fallback is requested, once,
\* when the primary failed and a fallback url was given that differs from
\* the primary url; with no fallback, or one equal to the primary url, a
\* failed primary request is the only request and None is returned.
C15_RetryOnceOnDistinctFallback ==
    /\ C15_Common
    /\ (fpc = "returned" /\ C15_Failed(requested[1].response)) =>
          IF TruthyStr(fallback_url) /\ fallback_url # fetch_url
            THEN Len(requested) = 2
            ELSE Len(requested) = 1 /\ fetched = <<>>

\* a short primary body, then a fallback body that is long enough
C15_Witness ==
    /\ fpc = "returned" /\ Len(requested) = 2
    /\ requested[1].response = [status |-> "ok", len |-> MinPayload - 1]
    /\ fetched = <<MinPayload>>

(***************************************************************************)
(* The processing batch of app.main.  What becomes of a photo is a fact    *)
(* of the network and of the bytes behind its URL: fetch_image_bytes       *)
(* returns None, process_image raises (the bytes are no image, or the      *)
(* transform fails), save_as_webp raises, or all three succeed.            *)
(***************************************************************************)
MaxPhotos == 3

Fates == {"fetch_none", "process_raises", "encode_raises", "ok"}
FilePrefixes == {"TOP", "TOP_tate"}

\* sorted(S) for a set of integers
RECURSIVE Sorted(_)
Sorted(S) == IF S = {} THEN <<>> ELSE <<SetMin(S)>> \o Sorted(S \ {SetMin(S)})

\* the entry appended with the position in the selection as its number
processed_entry_idx(pos, i) == <<pos + 1, [photo |-> i]>>

\* processed.append((i + 1, webp_bytes)): pos is idx, the position in the
\* selection, i the index in the extracted list
processed_entry(pos, i) == <<i + 1, [photo |-> i]>>

BatchInit ==
    /\ kind = "generic" /\ base_url = <<>>
    /\ photos \in 1..MaxPhotos
    /\ fate \in [0..(photos - 1) -> Fates]
    /\ \E S \in (SUBSET (0..(photos - 1))) \ {{}} : selected = Sorted(S)
    /\ bidx = 0
    /\ processed = <<>> /\ processed_images = <<>> /\ zip_names = <<>>
    /\ bpc = "loop"
    /\ NormIdle /\ AddIdle /\ WebpIdle /\ XformIdle /\ HarvIdle /\ FetchIdle /\ ToneIdle /\ FrontIdle

batchRest == <<photos, fate, selected, allButOther, fetchVars, toneVars, frontVars>>

\* one pass of "for idx, i in enumerate(selected)"
BatchPhoto ==
    /\ bpc = "loop" /\ bidx < Len(selected)
    /\ LET i == selected[bidx + 1]
       IN  processed' = IF fate[i] = "ok"
                          THEN Append(processed, processed_entry(bidx, i))
                          ELSE processed
    /\ bidx' = bidx + 1
    /\ UNCHANGED <<processed_images, zip_names, bpc, batchRest>>

\* st.session_state.processed_images = processed
BatchStore ==
    /\ bpc = "loop" /\ bidx = Len(selected)
    /\ processed_images' = processed
    /\ bpc' = "stored"
    /\ UNCHANGED <<bidx, processed, zip_names, batchRest>>

\* for num, img_bytes in proc: zf.writestr(f"{file_prefix}_{num}.webp", img_bytes)
BatchZip ==
    /\ bpc = "stored" /\ processed_images # <<>>
    /\ \E file_prefix \in FilePrefixes :
          zip_names' = [k \in 1..Len(processed_images) |->
                           <<file_prefix, processed_images[k][1]>>]
    /\ bpc' = "zipped"
    /\ UNCHANGED <<bidx, processed, processed_images, batchRest>>

BatchNext == BatchPhoto \/ BatchStore \/ BatchZip

SpecBatch == BatchInit /\ [][BatchNext]_vars

\* the photos the loop has been through
C16_Handled == {selected[k] : k \in 1..bidx}
C16_Entries(i) == {k \in 1..Len(processed) : processed[k][1] = i + 1}

\* C16: every selected photo whose fetch, transform and encode succeed has
\* exactly one entry in the processed list, tagged with its index in the
\* extracted list + 1 and holding its own bytes, whatever became of the
\* other photos; a failed photo has no entry; the stored list is the
\* processed list and the archive names are distinct.
C16_OneEntryPerSuccess ==
    /\ \A i \in 0..(photos - 1) :
          IF i \in C16_Handled /\ fate[i] = "ok"
            THEN /\ Cardinality(C16_Entries(i)) = 1
                 /\ \A k \in C16_Entries(i) : processed[k][2] = [photo |-> i]
            ELSE C16_Entries(i) = {}
    /\ \A k \in 1..Len(processed) : processed[k][1] \in 1..photos
    /\ bpc \in {"stored", "zipped"} =>
          /\ bidx = Len(selected)
          /\ processed_images = processed
    /\ bpc = "zipped" =>
          /\ Len(zip_names) = Len(processed)
          /\ \A j, k \in 1..Len(zip_names) : zip_names[j] = zip_names[k] => j = k

\* a failed photo before a successful one: the batch went on, and the
\* entry of the later photo carries its own number
C16_Witness ==
    /\ bpc = "zipped" /\ photos = 3 /\ selected = <<0, 2>>
    /\ fate[0] = "process_raises" /\ fate[2] = "ok"
    /\ processed = <<processed_entry(1, 2)>>

(***************************************************************************)
(* image_processor.reduce_highlights.  Image.point applies reduce_high to  *)
(* every channel value of the image; two values of a band are followed.    *)
(* amount is held in hundredths, and 255 * amount * ((x - 128) / 127) is   *)
(* computed in integers: 255 * 5 * (x - 128) / (100 * 127).                *)
(***************************************************************************)
ChannelMax == 255
Midpoint == 128
Span == 127
MOBILE_HIGHLIGHT_REDUCE == 5

\* reduce_high without "if x <= 128: return x"
reduce_high_all(x) ==
    LET reduction == IntDiv(ChannelMax * MOBILE_HIGHLIGHT_REDUCE * (x - Midpoint), 100 * Span)
    IN  Max(0, x - reduction)

\* reduce_high of reduce_highlights(img, MOBILE_HIGHLIGHT_REDUCE)
reduce_high(x) ==
    IF x <= Midpoint THEN x
    ELSE LET reduction == IntDiv(ChannelMax * MOBILE_HIGHLIGHT_REDUCE * (x - Midpoint), 100 * Span)
         IN  Max(0, x - reduction)

ToneInit ==
    /\ kind = "generic" /\ base_url = <<>>
    /\ band \in (0..ChannelMax) \X (0..ChannelMax)
    /\ band_out = <<>>
    /\ rpc = "start"
    /\ NormIdle /\ AddIdle /\ WebpIdle /\ XformIdle /\ HarvIdle /\ FetchIdle /\ BatchIdle /\ FrontIdle

\* r = r.point(reduce_high)
ReduceHighlights ==
    /\ rpc = "start"
    /\ band_out' = [k \in 1..Len(band) |-> reduce_high(band[k])]
    /\ rpc' = "done"
    /\ UNCHANGED <<band, allButOther, fetchVars, batchVars, frontVars>>

ToneNext == ReduceHighlights

SpecTone == ToneInit /\ [][ToneNext]_vars

\* C20: a channel value in 0..128 comes back unchanged; a value x in
\* 129..255 comes back as x - floor(255 * 0.05 * (x - 128) / 127), which is
\* at most x and at least 0; and of two values the brighter never comes
\* back darker than the other.
C20_HighlightCurve ==
    rpc = "done" =>
        /\ \A k \in 1..2 :
              LET x == band[k]
                  r == x - band_out[k]
              IN  /\ x <= 128 => band_out[k] = x
                  /\ x >= 129 =>
                        /\ 100 * 127 * r <= 255 * 5 * (x - 128)
                        /\ 255 * 5 * (x - 128) < 100 * 127 * (r + 1)
                  /\ band_out[k] <= x
                  /\ band_out[k] >= 0
        /\ band[1] <= band[2] => band_out[1] <= band_out[2]

\* 200 comes back as 193 and 255 as 243
C20_Witness ==
    rpc = "done" /\ band = <<200, 255>> /\ band_out = <<193, 243>>

(***************************************************************************)
(* The extraction subprocess: extract_cli.main, run by                     *)
(* app.extract_photos_via_subprocess.  A stream (stdout, stderr) is a      *)
(* sequence of chunks, each a JSON document or other text; json.loads      *)
(* accepts a stream that is exactly one JSON document.  A photo list is    *)
(* its length.  None is "None"; the messages are the source's, in English. *)
(***************************************************************************)
ExcMessages == {"", "boom"}
ExcTypes == {"RuntimeError", "NotImplementedError"}

\* what becomes of extract_photos_from_url, and of the process around it
HarvestEnds ==
    {[ends |-> "returns", n |-> k, msg |-> "", type |-> ""] : k \in 0..MaxPhotos}
    \cup {[ends |-> "raises", n |-> 0, msg |-> g, type |-> t] :
              g \in ExcMessages, t \in ExcTypes}
    \cup {[ends |-> e, n |-> 0, msg |-> "", type |-> ""] : e \in {"dies", "hangs"}}

JsonChunk(d) == [json |-> TRUE, doc |-> d]
TextChunk == [json |-> FALSE, doc |-> <<>>]
Noise(noisy) == IF noisy THEN <<TextChunk>> ELSE <<>>

\* extract_cli.main from line 17 on: the streams and the exit status
cli_main(h, noisy_out, noisy_err) ==
    IF h.ends = "returns"
    THEN [returncode |-> 0,
          stdout |-> Noise(noisy_out) \o <<JsonChunk([photos |-> h.n, count |-> h.n])>>,
          stderr |-> Noise(noisy_err)]
    ELSE [returncode |-> 1,
          stdout |-> Noise(noisy_out),
          stderr |-> Noise(noisy_err) \o <<JsonChunk([error |-> h.msg, type |-> h.type])>>]

Completed(c) ==
    [run |-> "completed", msg |-> "", returncode |-> c.returncode,
     stdout |-> c.stdout, stderr |-> c.stderr]
NotCompleted(how, g) ==
    [run |-> how, msg |-> g, returncode |-> 0, stdout |-> <<>>, stderr |-> <<>>]

\* json.loads(stream) raises json.JSONDecodeError
JSONDecodeError(stream) == ~(Len(stream) = 1 /\ stream[1].json)

\* extract_photos_via_subprocess, given what subprocess.run came to
extract_photos_via_subprocess(p) ==
    IF p.run = "timeout" THEN [photos |-> 0, err |-> "timeout (120 s)"]
    ELSE IF p.run = "exception" THEN [photos |-> 0, err |-> p.msg]
    ELSE IF p.returncode # 0
    THEN IF JSONDecodeError(p.stderr)
         THEN [photos |-> 0,
               err |-> IF p.stderr = <<>> THEN "unknown error" ELSE "stderr"]
         ELSE LET err_data == p.stderr[1].doc
              IN  [photos |-> 0,
                   err |-> IF "error" \in DOMAIN err_data THEN err_data.error
                           ELSE "stderr"]
    ELSE IF JSONDecodeError(p.stdout)
    THEN [photos |-> 0, err |-> "Expecting value"]
    ELSE LET out_data == p.stdout[1].doc
         IN  IF "error" \in DOMAIN out_data
             THEN [photos |-> 0, err |-> out_data.error]
             ELSE [photos |-> IF "photos" \in DOMAIN out_data THEN out_data.photos ELSE 0,
                   err |-> "None"]

ExtractInit ==
    /\ kind = "generic" /\ base_url = <<>>
    /\ harvest \in HarvestEnds
    /\ proc = <<>> /\ sub_ret = <<>>
    /\ xpc = "start"
    /\ NormIdle /\ AddIdle /\ WebpIdle /\ XformIdle /\ HarvIdle
    /\ FetchIdle /\ BatchIdle /\ ToneIdle /\ UiIdle

extractRest == <<harvest, allButOther, fetchVars, batchVars, toneVars, uiVars>>

\* the subprocess ran extract_cli.main to its end
CliMain ==
    /\ xpc = "start" /\ harvest.ends \in {"returns", "raises"}
    /\ \E noisy_out, noisy_err \in BOOLEAN :
          proc' = Completed(cli_main(harvest, noisy_out, noisy_err))
    /\ xpc' = "ran"
    /\ UNCHANGED <<sub_ret, extractRest>>

\* the subprocess ended outside the try block of main: a failed import, an
\* exception that is no Exception, a signal
CliDies ==
    /\ xpc = "start" /\ harvest.ends = "dies"
    /\ \E noisy_err \in BOOLEAN :
          proc' = Completed([returncode |-> 1, stdout |-> <<>>,
                             stderr |-> Noise(noisy_err)])
    /\ xpc' = "ran"
    /\ UNCHANGED <<sub_ret, extractRest>>

\* subprocess.run raised TimeoutExpired after 120 s
CliTimeout ==
    /\ xpc = "start" /\ harvest.ends = "hangs"
    /\ proc' = NotCompleted("timeout", "")
    /\ xpc' = "ran"
    /\ UNCHANGED <<sub_ret, extractRest>>

\* subprocess.run raised another exception (the interpreter could not be
\* started)
SubprocessFails ==
    /\ xpc = "start"
    /\ \E g \in ExcMessages : proc' = NotCompleted("exception", g)
    /\ xpc' = "ran"
    /\ UNCHANGED <<sub_ret, extractRest>>

ExtractReturn ==
    /\ xpc = "ran"
    /\ sub_ret' = extract_photos_via_subprocess(proc)
    /\ xpc' = "returned"
    /\ UNCHANGED <<proc, extractRest>>

ExtractNext == CliMain \/ CliDies \/ CliTimeout \/ SubprocessFails \/ ExtractReturn

SpecExtract == ExtractInit /\ [][ExtractNext]_vars

\* the extraction failed: no subprocess, a timeout, a non-zero exit status,
\* or output that json.loads rejects
C21_Failed ==
    \/ proc.run # "completed"
    \/ proc.returncode # 0
    \/ JSONDecodeError(proc.stdout)

\* extract_cli reports an exception of the harvester as a JSON object with
\* 'error' and 'type' on stderr and exit status 1
C21_CliReports ==
    (xpc # "start" /\ harvest.ends = "raises" /\ proc.run = "completed") =>
        /\ proc.returncode = 1
        /\ JsonChunk([error |-> harvest.msg, type |-> harvest.type]) \in Range(proc.stderr)

\* C21 as stated: a failed extraction comes back from
\* extract_photos_via_subprocess as an empty photo list with a non-empty
\* error message, and extract_cli reports an exception of the harvester as
\* JSON with 'error' and 'type' and exit status 1.
C21_FailureIsReported ==
    /\ C21_CliReports
    /\ (xpc = "returned" /\ C21_Failed) =>
          (sub_ret.photos = 0 /\ TruthyStr(sub_ret.err))

\* C21 for the failures that carry a message: an empty list and a non-empty
\* message unless the exception's own message is empty; the list is empty
\* after every failure
C21_ReportedUnlessEmptyMessage ==
    /\ C21_CliReports
    /\ (xpc = "returned" /\ C21_Failed) =>
          /\ sub_ret.photos = 0
          /\ sub_ret.err # "None"
          /\ (sub_ret.err = "") =>
                \/ (proc.run = "exception" /\ proc.msg = "")
                \/ (harvest.ends = "raises" /\ harvest.msg = "")

(***************************************************************************)
(* The web front end, app.main.  Streamlit runs the script from the top    *)
(* once for every user action; st.session_state lives between the runs.    *)
(* An action below is one user action with the script run it starts (and   *)
(* the second run that st.rerun() starts).  The list of photos is its      *)
(* length.  A checkbox key whose checkbox is not drawn in a run may be     *)
(* kept or dropped by the framework.                                       *)
(***************************************************************************)
\* everything subprocess.run can come to
ProcOutcomes ==
    {Completed(cli_main(h, a, b)) :
        h \in {g \in HarvestEnds : g.ends \in {"returns", "raises"}},
        a \in BOOLEAN, b \in BOOLEAN}
    \cup {Completed([returncode |-> 1, stdout |-> <<>>, stderr |-> Noise(b)]) :
              b \in BOOLEAN}
    \cup {NotCompleted("timeout", "")}
    \cup {NotCompleted("exception", g) : g \in ExcMessages}

\* the extraction step with selected_indices left as it is on success
extraction_step_keep(r, chosen) ==
    IF TruthyStr(r.err)
    THEN [extracted_photos |-> 0, selected_indices |-> chosen, shown |-> "error"]
    ELSE [extracted_photos |-> r.photos, selected_indices |-> chosen, shown |-> "success"]

\* the extraction step, given (photos, err) of extract_photos_via_subprocess
\* and selected_indices as it was before
extraction_step(r, chosen) ==
    IF TruthyStr(r.err)
    THEN [extracted_photos |-> 0, selected_indices |-> chosen, shown |-> "error"]
    ELSE [extracted_photos |-> r.photos, selected_indices |-> {}, shown |-> "success"]

\* the checkbox keys after the grid is drawn for n photos: a missing key is
\* set to "i in selected_indices"; keys of checkboxes not drawn stay or go
GridKeys(n, chosen, keys, keep) ==
    [i \in (0..(n - 1)) \cup (IF keep THEN DOMAIN keys ELSE {}) |->
        IF i \in DOMAIN keys THEN keys[i] ELSE i \in chosen]

\* selected_indices after the grid: add(i) for a checked box, discard(i)
\* for an unchecked one
GridSelected(n, chosen, keys) ==
    (chosen \ {i \in 0..(n - 1) : ~keys[i]}) \cup {i \in 0..(n - 1) : keys[i]}

UiInit ==
    /\ kind = "generic" /\ base_url = <<>>
    /\ extracted_photos = 0 /\ selected_indices = {} /\ photo_sel = <<>>
    /\ shown = "none" /\ to_process = <<>> /\ index_error = FALSE
    /\ upc = "ready"
    /\ NormIdle /\ AddIdle /\ WebpIdle /\ XformIdle /\ HarvIdle
    /\ FetchIdle /\ BatchIdle /\ ToneIdle /\ ExtractIdle

uiRest == <<upc, allButOther, fetchVars, batchVars, toneVars, extractVars>>

\* the script from "photos = st.session_state.extracted_photos" to the
\* process button, with n photos and the session state chosen, keys
RunFromGrid(n, chosen, keys) ==
    \E keep \in BOOLEAN :
        IF n = 0
        THEN /\ selected_indices' = chosen
             /\ photo_sel' = IF keep THEN keys ELSE <<>>
        ELSE /\ photo_sel' = GridKeys(n, chosen, keys, keep)
             /\ selected_indices' = GridSelected(n, chosen, photo_sel')

\* the extract button with an empty URL field
ClickExtractNoUrl ==
    /\ upc = "ready"
    /\ shown' = "no_url"
    /\ RunFromGrid(extracted_photos, selected_indices, photo_sel)
    /\ to_process' = <<>>
    /\ UNCHANGED <<extracted_photos, index_error, uiRest>>

\* the extract button with a URL
ClickExtract ==
    /\ upc = "ready"
    /\ \E p \in ProcOutcomes :
          LET e == extraction_step(extract_photos_via_subprocess(p), selected_indices)
          IN  /\ extracted_photos' = e.extracted_photos
              /\ shown' = e.shown
              /\ RunFromGrid(e.extracted_photos, e.selected_indices, photo_sel)
    /\ to_process' = <<>>
    /\ UNCHANGED <<index_error, uiRest>>

\* the select-all button, and the run st.rerun() starts
ClickSelectAll ==
    /\ upc = "ready" /\ extracted_photos > 0
    /\ RunFromGrid(extracted_photos, 0..(extracted_photos - 1),
                   [i \in DOMAIN photo_sel \cup (0..(extracted_photos - 1)) |->
                       IF i < extracted_photos THEN TRUE ELSE photo_sel[i]])
    /\ shown' = "none" /\ to_process' = <<>>
    /\ UNCHANGED <<extracted_photos, index_error, uiRest>>

\* the clear-all button, and the run st.rerun() starts
ClickClearAll ==
    /\ upc = "ready" /\ extracted_photos > 0
    /\ RunFromGrid(extracted_photos, {},
                   [i \in DOMAIN photo_sel \ (0..(extracted_photos - 1)) |-> photo_sel[i]])
    /\ shown' = "none" /\ to_process' = <<>>
    /\ UNCHANGED <<extracted_photos, index_error, uiRest>>

\* a click on the checkbox of photo i
ToggleCheckbox ==
    /\ upc = "ready"
    /\ \E i \in 0..(extracted_photos - 1) :
          /\ i \in DOMAIN photo_sel
          /\ RunFromGrid(extracted_photos, selected_indices,
                         [photo_sel EXCEPT ![i] = ~photo_sel[i]])
    /\ shown' = "none" /\ to_process' = <<>>
    /\ UNCHANGED <<extracted_photos, index_error, uiRest>>

\* the process button: the run draws the grid, then
\* "for idx, i in enumerate(selected): photo = photos[i]"
ClickProcess ==
    /\ upc = "ready" /\ extracted_photos > 0 /\ selected_indices # {}
    /\ RunFromGrid(extracted_photos, selected_indices, photo_sel)
    /\ IF selected_indices' = {}
       THEN to_process' = <<>> /\ UNCHANGED index_error
       ELSE /\ to_process' = Sorted(selected_indices')
            /\ index_error' = (index_error \/ \E i \in selected_indices' : i >= extracted_photos)
    /\ shown' = "none"
    /\ UNCHANGED <<extracted_photos, uiRest>>

UiNext ==
    \/ ClickExtractNoUrl \/ ClickExtract \/ ClickSelectAll \/ ClickClearAll
    \/ ToggleCheckbox \/ ClickProcess

SpecUi == UiInit /\ [][UiNext]_vars

\* C23: after any sequence of user actions, every index the processing
\* step reads from selected_indices is an index into the current list of
\* photos: while photos are held, selected_indices lies in
\* 0 .. len(photos) - 1, and photos[i] never raises IndexError.
C23_SelectedIndicesValid ==
    /\ extracted_photos > 0 => selected_indices \subseteq 0..(extracted_photos - 1)
    /\ \A k \in 1..Len(to_process) : to_process[k] \in 0..(extracted_photos - 1)
    /\ ~index_error

\* C23 witness: the processing step has just read the indices of a list
\* that is shorter than an earlier one, whose last checkbox key, checked,
\* is still held
C23_Witness ==
    /\ to_process # <<>>
    /\ \E i \in DOMAIN photo_sel : i >= extracted_photos /\ photo_sel[i]


=============================================================================
